---------------------------- MODULE Spec2Model ----------------------------
(***************************************************************************)
(* Model of the reel compositor of marathon-aws:                           *)
(*   lambdas/generate_event_reels/reel_generation_handler/                 *)
(*       reel_generation.py   overlay_images_on_video and its helpers      *)
(*                                                                         *)
(* Python floats are modelled as exact rationals [n, d] (d > 0, lowest     *)
(* terms); rounding error of IEEE arithmetic is not modelled.  Python's    *)
(* None is modelled by a tag of the value that may be None.  Character     *)
(* strings the code inspects (colours) are sequences of one-character      *)
(* strings.  A layer records which overlay produced it and its time box;   *)
(* pixel contents are not modelled.                                        *)
(***************************************************************************)
EXTENDS Integers, Sequences, FiniteSets, TLC

(***************************************************************************)
(* Bounds of the model.                                                    *)
(***************************************************************************)
MaxOverlays == 2
MaxImages == 3

(***************************************************************************)
(* Float arithmetic (exact).                                               *)
(***************************************************************************)
Abs(x) == IF x < 0 THEN -x ELSE x

RECURSIVE GCD(_, _)
GCD(a, b) == IF b = 0 THEN a ELSE GCD(b, a % b)

Rat(n, d) ==
    LET g == GCD(Abs(n), d)
    IN  [n |-> IF n >= 0 THEN n \div g ELSE -((-n) \div g), d |-> d \div g]

float(k) == Rat(k, 1)

RAdd(a, b) == Rat(a.n * b.d + b.n * a.d, a.d * b.d)
RSub(a, b) == Rat(a.n * b.d - b.n * a.d, a.d * b.d)
RMulInt(k, a) == Rat(k * a.n, a.d)
RDivInt(a, k) == Rat(a.n, a.d * k)
RLeq(a, b) == a.n * b.d <= b.n * a.d
RLt(a, b) == a.n * b.d < b.n * a.d
RMax(a, b) == IF RLeq(a, b) THEN b ELSE a

\* int(x): truncation toward zero
int(a) == IF a.n >= 0 THEN a.n \div a.d ELSE -((-a.n) \div a.d)

(***************************************************************************)
(* Values of the overlay descriptors.                                      *)
(***************************************************************************)
NONE == "None"

\* position values: a string, a list or tuple (len is its length; x, y are
\* its elements when it has two), a dict {x, y}, or anything else (a number,
\* None, ...); "absent" is a key that the descriptor does not have
PosStr(s) == [kind |-> "str", s |-> s, len |-> 0, x |-> float(0), y |-> float(0)]
PosList(x, y) == [kind |-> "list", s |-> "", len |-> 2, x |-> x, y |-> y]
PosListN(n) == [kind |-> "list", s |-> "", len |-> n, x |-> float(0), y |-> float(0)]
PosDict(x, y) == [kind |-> "dict", s |-> "", len |-> 0, x |-> x, y |-> y]
PosOther == [kind |-> "other", s |-> "", len |-> 0, x |-> float(0), y |-> float(0)]
PosAbsent == [kind |-> "absent", s |-> "", len |-> 0, x |-> float(0), y |-> float(0)]

\* colour values: None or a string
ColorNone == [none |-> TRUE, s |-> <<>>]
ColorStr(s) == [none |-> FALSE, s |-> s]

White == ColorStr(<<"#", "F", "F", "F", "F", "F", "F">>)
RedAlpha == ColorStr(<<"#", "f", "f", "0", "0", "0", "0", "8", "0">>)
NamedRed == ColorStr(<<"r", "e", "d">>)
NamedYellow == ColorStr(<<"y", "e", "l", "l", "o", "w">>)

(***************************************************************************)
(* _parse_hex_color                                                        *)
(***************************************************************************)
HexChars == <<"0", "1", "2", "3", "4", "5", "6", "7", "8", "9",
              "A", "B", "C", "D", "E", "F">>
HexCharsLower == <<"0", "1", "2", "3", "4", "5", "6", "7", "8", "9",
                   "a", "b", "c", "d", "e", "f">>

IsHex(c) == \E k \in 1..16 : HexChars[k] = c \/ HexCharsLower[k] = c
HexVal(c) == (CHOOSE k \in 1..16 : HexChars[k] = c \/ HexCharsLower[k] = c) - 1

\* int(s[a:a+2], 16) of two characters
HexByte(s, a) == 16 * HexVal(s[a]) + HexVal(s[a + 1])

\* result: err is TRUE when ValueError is raised
_parse_hex_color(color) ==
    IF color.none THEN [err |-> FALSE, none |-> TRUE, rgba |-> <<>>]
    ELSE LET s == IF Len(color.s) > 0 /\ color.s[1] = "#"
                  THEN SubSeq(color.s, 2, Len(color.s)) ELSE color.s
             hex == \A k \in 1..Len(s) : IsHex(s[k])
         IN  IF Len(s) = 6
             THEN IF hex
                  THEN [err |-> FALSE, none |-> FALSE,
                        rgba |-> <<HexByte(s, 1), HexByte(s, 3), HexByte(s, 5), 255>>]
                  ELSE [err |-> TRUE, none |-> FALSE, rgba |-> <<>>]
             ELSE IF Len(s) = 8
             THEN IF hex
                  THEN [err |-> FALSE, none |-> FALSE,
                        rgba |-> <<HexByte(s, 1), HexByte(s, 3), HexByte(s, 5), HexByte(s, 7)>>]
                  ELSE [err |-> TRUE, none |-> FALSE, rgba |-> <<>>]
             ELSE [err |-> TRUE, none |-> FALSE, rgba |-> <<>>]

(***************************************************************************)
(* get_position and _resolve_xy                                            *)
(***************************************************************************)
lower_mut(s) == s
\* str.lower() on the position strings of the model
lower(s) ==
    CASE s = "Center" -> "center"
      [] s = "CENTER" -> "center"
      [] s = "Top" -> "top"
      [] s = "BOTTOM" -> "bottom"
      [] s = "Left" -> "left"
      [] s = "RIGHT" -> "right"
      [] s = "Top-Left" -> "top-left"
      [] s = "TOP-RIGHT" -> "top-right"
      [] s = "Bottom-left" -> "bottom-left"
      [] s = "BOTTOM-RIGHT" -> "bottom-right"
      [] s = "Middle" -> "middle"
      [] OTHER -> s

\* the keyword table: keyword -> <<horizontal anchor, vertical anchor>>
mapping ==
    [p \in {"center", "top", "bottom", "left", "right", "top-left",
            "top-right", "bottom-left", "bottom-right"} |->
        CASE p = "center" -> <<"center", "center">>
          [] p = "top" -> <<"center", "top">>
          [] p = "bottom" -> <<"center", "bottom">>
          [] p = "left" -> <<"left", "center">>
          [] p = "right" -> <<"right", "center">>
          [] p = "top-left" -> <<"left", "top">>
          [] p = "top-right" -> <<"right", "top">>
          [] p = "bottom-left" -> <<"left", "bottom">>
          [] p = "bottom-right" -> <<"right", "bottom">>]

_resolve_xy_mut(x, y, vw, vh, ow, oh) ==
    [err |-> "none",
     x |-> IF RLt(float(Abs(x.n)), [n |-> x.d, d |-> 1])
           THEN int(RMulInt(vw, x)) ELSE int(x),
     y |-> IF RLt(float(Abs(y.n)), [n |-> y.d, d |-> 1])
           THEN int(RMulInt(vh, y)) ELSE int(y)]
_resolve_xy(x, y, vw, vh, ow, oh) ==
    [err |-> "none",
     x |-> IF RLeq(float(Abs(x.n)), [n |-> x.d, d |-> 1])
           THEN int(RMulInt(vw, x)) ELSE int(x),
     y |-> IF RLeq(float(Abs(y.n)), [n |-> y.d, d |-> 1])
           THEN int(RMulInt(vh, y)) ELSE int(y)]

is_pair_mut(position) == position.kind = "list"
\* isinstance(position, (list, tuple)) and len(position) == 2
is_pair(position) == position.kind = "list" /\ position.len = 2

\* result: err is "none", "ValueError" or "TypeError"
get_position(position, video_size, overlay_size) ==
    LET vw == video_size[1]
        vh == video_size[2]
        ow == overlay_size[1]
        oh == overlay_size[2]
    IN  IF is_pair(position)
        THEN _resolve_xy(position.x, position.y, vw, vh, ow, oh)
        ELSE IF position.kind = "dict"
        THEN _resolve_xy(position.x, position.y, vw, vh, ow, oh)
        ELSE IF position.kind = "str"
        THEN LET p == lower(position.s)
             IN  IF p \notin DOMAIN mapping
                 THEN [err |-> "ValueError", x |-> 0, y |-> 0]
                 ELSE LET hx == mapping[p][1]
                          vy == mapping[p][2]
                      IN  [err |-> "none",
                           x |-> IF hx = "left" THEN 0
                                 ELSE IF hx = "right" THEN vw - ow
                                 ELSE (vw - ow) \div 2,
                           y |-> IF vy = "top" THEN 0
                                 ELSE IF vy = "bottom" THEN vh - oh
                                 ELSE (vh - oh) \div 2]
        ELSE [err |-> "TypeError", x |-> 0, y |-> 0]


(***************************************************************************)
(* Environment: the local files and the background video.                  *)
(***************************************************************************)
ExistingFiles == {"a.png"}
MissingFile == "missing.png"

exists_mut(path) == TRUE
\* os.path.exists(path)
exists(path) == path \in ExistingFiles

\* (video.w, video.h)
video_size == <<200, 100>>
\* pixel size of a source image and of a rasterized text block; the
\* descriptors of the model leave scale, rotation, width and height at their
\* defaults, and get_position raises or not independently of the size
image_size == <<40, 20>>
text_size == <<60, 30>>

(***************************************************************************)
(* Layers (clips).                                                         *)
(*   kind  "video" | "image" | "stack" | "text"                            *)
(*   src   index in overlays of the descriptor that produced the layer     *)
(*   img   index in image_paths (0-based) of a stack layer, else -1        *)
(*   start, duration   with_start / duration of the clip; end = start +    *)
(*         duration                                                        *)
(*   size, x, y   the size handed to get_position and the position it      *)
(*         returned (with_position)                                        *)
(***************************************************************************)
Clip(kind, src, img, path, start, duration, size, pos) ==
    [kind |-> kind, src |-> src, img |-> img, path |-> path,
     start |-> start, duration |-> duration,
     size |-> size, x |-> pos.x, y |-> pos.y]

ClipEnd(c) == RAdd(c.start, c.duration)

\* the two time checks at the head of the loop body
skip_overlay_mut(ov, vd) ==
    \/ RLt(float(ov.duration), float(0))
    \/ RLt(vd, float(ov.start_time))
skip_overlay(ov, vd) ==
    \/ RLeq(float(ov.duration), float(0))
    \/ RLeq(vd, float(ov.start_time))

\* overlay_config.get("position", "center")
config_position(ov) ==
    IF ov.position.kind = "absent" THEN PosStr("center") ELSE ov.position

\* overlay_config.get("text_position", overlay_config.get("position", "center"))
config_text_position(ov) ==
    IF ov.text_position.kind = "absent" THEN config_position(ov)
    ELSE ov.text_position

(***************************************************************************)
(* image_stack: one clip per existing image                                *)
(***************************************************************************)
\* time_interval = duration / num_images
time_interval(duration, num_images) == RDivInt(float(duration), num_images)

\* img_start_time = start_time + (img_idx * time_interval)
img_start_time(start_time, img_idx, interval) ==
    RAdd(float(start_time), RMulInt(img_idx, interval))

img_duration_mut(duration, img_idx, interval) == interval
\* img_duration = duration - (img_idx * time_interval)
img_duration(duration, img_idx, interval) ==
    RSub(float(duration), RMulInt(img_idx, interval))

\* the loop over image_paths, from img_idx on; err is the exception that
\* leaves the loop, clips the list as it is at that moment
RECURSIVE stack_loop(_, _, _, _)
stack_loop(ov, i, img_idx, clips) ==
    IF img_idx >= Len(ov.image_paths)
    THEN [clips |-> clips, err |-> "none"]
    ELSE LET image_path == ov.image_paths[img_idx + 1]
             interval == time_interval(ov.duration, Len(ov.image_paths))
         IN  IF ~exists(image_path)
             THEN stack_loop(ov, i, img_idx + 1, clips)
             ELSE IF _parse_hex_color(ov.bg_color).err
             THEN [clips |-> clips, err |-> "ValueError"]
             ELSE LET pos == get_position(config_position(ov), video_size, image_size)
                  IN  IF pos.err # "none"
                      THEN [clips |-> clips, err |-> pos.err]
                      ELSE stack_loop(ov, i, img_idx + 1,
                               Append(clips,
                                   Clip("stack", i, img_idx, image_path,
                                        img_start_time(ov.start_time, img_idx, interval),
                                        img_duration(ov.duration, img_idx, interval),
                                        image_size, pos)))

(***************************************************************************)
(* plain overlay: A) image part, B) text part                              *)
(***************************************************************************)
image_part(ov, i, clips) ==
    IF ov.image_path = NONE THEN [clips |-> clips, err |-> "none"]
    ELSE IF ~exists(ov.image_path) THEN [clips |-> clips, err |-> "none"]
    ELSE IF _parse_hex_color(ov.bg_color).err
    THEN [clips |-> clips, err |-> "ValueError"]
    ELSE LET position == IF ov.bg_color.none THEN config_position(ov)
                         ELSE PosList(float(0), float(0))
             size == IF ov.bg_color.none THEN image_size ELSE video_size
             pos == get_position(position, video_size, size)
         IN  IF pos.err # "none"
             THEN [clips |-> clips, err |-> pos.err]
             ELSE [clips |-> Append(clips,
                                 Clip("image", i, -1, ov.image_path,
                                      float(ov.start_time), float(ov.duration),
                                      size, pos)),
                   err |-> "none"]

text_part(ov, i, clips) ==
    IF ov.text = NONE THEN [clips |-> clips, err |-> "none"]
    ELSE IF _parse_hex_color(ov.text_color).err
    THEN [clips |-> clips, err |-> "ValueError"]
    ELSE LET tpos == get_position(config_text_position(ov), video_size, text_size)
         IN  IF tpos.err # "none"
             THEN [clips |-> clips, err |-> tpos.err]
             ELSE [clips |-> Append(clips,
                                 Clip("text", i, -1, NONE,
                                      float(ov.start_time), float(ov.duration),
                                      text_size, tpos)),
                   err |-> "none"]

plain_overlay(ov, i, clips) ==
    LET a == image_part(ov, i, clips)
    IN  IF a.err # "none" THEN a ELSE text_part(ov, i, a.clips)

(***************************************************************************)
(* CompositeVideoClip([video] + overlay_clips)                             *)
(***************************************************************************)
composite_layers_mut(video, clips) == clips \o <<video>>
composite_layers(video, clips) == <<video>> \o clips

RECURSIVE MaxEnd(_)
MaxEnd(clips) ==
    IF Len(clips) = 1 THEN ClipEnd(clips[1])
    ELSE RMax(ClipEnd(clips[1]), MaxEnd(Tail(clips)))

\* moviepy: the composite's duration is the largest end of its clips
CompositeVideoClip(clips) ==
    [state |-> "open", clips |-> clips, duration |-> MaxEnd(clips)]

(***************************************************************************)
(* Inputs of a render: the overlay descriptors.                            *)
(***************************************************************************)
SeqsUpTo(S, n) == UNION {[1..k -> S] : k \in 0..n}

Base ==
    [type |-> "image", start_time |-> 0, duration |-> 3,
     position |-> PosStr("center"), text_position |-> PosAbsent,
     bg_color |-> ColorNone, image_path |-> "a.png", image_paths |-> <<>>,
     text |-> NONE, text_color |-> White]

TextBase == [Base EXCEPT !.type = "text", !.image_path = NONE, !.text = "HI"]

StackBase ==
    [Base EXCEPT !.type = "image_stack", !.image_path = NONE,
                 !.start_time = 10, !.duration = 9]

\* <<start_time, duration>>
Times == {<<0, 3>>, <<10, 9>>, <<12, 3>>, <<2, 0>>, <<2, -1>>}

TimedOverlays == {[Base EXCEPT !.start_time = t[1], !.duration = t[2]] : t \in Times}

ContentOverlays ==
    {[Base EXCEPT !.image_path = MissingFile],
     [Base EXCEPT !.text = "HI"],
     [Base EXCEPT !.image_path = MissingFile, !.text = "HI"],
     TextBase}

StyleOverlays ==
    {[Base EXCEPT !.position = PosStr("TOP-RIGHT")],
     [Base EXCEPT !.position = PosStr("middle")],
     [Base EXCEPT !.position = PosOther],
     [Base EXCEPT !.position = PosList(float(30), float(5))],
     [Base EXCEPT !.bg_color = RedAlpha],
     [Base EXCEPT !.bg_color = NamedRed],
     [Base EXCEPT !.bg_color = NamedYellow],
     [Base EXCEPT !.bg_color = RedAlpha, !.position = PosStr("middle")],
     [Base EXCEPT !.bg_color = RedAlpha, !.position = PosStr("middle"), !.text = "HI"],
     [TextBase EXCEPT !.text_color = NamedRed],
     [TextBase EXCEPT !.text_position = PosOther]}

StackOverlays ==
    {[StackBase EXCEPT !.image_paths = ps] :
        ps \in SeqsUpTo({"a.png", MissingFile}, MaxImages)}
    \cup
    {[StackBase EXCEPT !.image_paths = <<"a.png">>, !.text = "HI"],
     [StackBase EXCEPT !.image_paths = <<"a.png", "a.png">>, !.position = PosStr("middle")],
     [StackBase EXCEPT !.image_paths = <<MissingFile, "a.png">>, !.bg_color = NamedRed],
     [StackBase EXCEPT !.image_paths = <<"a.png">>, !.bg_color = RedAlpha]}

OverlayConfigs == TimedOverlays \cup ContentOverlays \cup StyleOverlays \cup StackOverlays

\* video.duration of the background videos of the model
VideoDurations == {float(0), float(12)}

(***************************************************************************)
(* State                                                                   *)
(***************************************************************************)
VARIABLES
    video_readable,  \* input: VideoFileClip(video_path) can open the file
    video_duration,  \* input: video.duration
    overlays,        \* input: the overlay list
    pc,              \* "start" | "loop" | "write" | "close" | "done" | "raised"
    i,               \* index in overlays of the next descriptor (1-based)
    overlay_clips,   \* the list overlay_clips
    video_open,      \* the VideoFileClip handle is open
    final_video,     \* the CompositeVideoClip: state "none" | "open" | "closed"
    output_file,     \* the file at output_path: "absent" | "partial" | "complete"
    err,             \* the exception that left the function, or "none"
    call,            \* a call of one of the helper functions on its own:
                     \* [fn, args, done, result]
    s3_objects,      \* the folders of the event in the bucket that hold the
                     \* file: a subset of {"ProcessedImages", "UnProcessedImages"}
    event_images     \* the BibIds of the file's items in the EventImages
                     \* table, in the order they were put

render_vars == <<video_readable, video_duration, overlays, pc, i, overlay_clips,
                 video_open, final_video, output_file, err>>

aws == <<s3_objects, event_images>>

vars == <<render_vars, call, aws>>

\* no helper is being called on its own
NoCall == [fn |-> "none", args |-> <<>>, done |-> FALSE, result |-> <<>>]

inputs == <<video_readable, video_duration, overlays>>

NoComposite == [state |-> "none", clips |-> <<>>, duration |-> float(0)]

VideoLayer ==
    Clip("video", 0, -1, NONE, float(0), video_duration, video_size, [x |-> 0, y |-> 0])

Init ==
    /\ overlays \in SeqsUpTo(OverlayConfigs, MaxOverlays)
    /\ \/ video_readable = TRUE /\ video_duration \in VideoDurations
       \/ video_readable = FALSE /\ video_duration = float(0)
    /\ pc = "start"
    /\ i = 1
    /\ overlay_clips = <<>>
    /\ video_open = FALSE
    /\ final_video = NoComposite
    /\ output_file = "absent"
    /\ err = "none"
    /\ call = NoCall
    /\ s3_objects = {}
    /\ event_images = <<>>

\* video = VideoFileClip(video_path)
OpenVideo ==
    /\ pc = "start"
    /\ video_readable
    /\ video_open' = TRUE
    /\ pc' = "loop"
    /\ UNCHANGED <<inputs, call, aws, i, overlay_clips, final_video, output_file, err>>

\* VideoFileClip(video_path) raises
OpenVideoFails ==
    /\ pc = "start"
    /\ ~video_readable
    /\ pc' = "raised"
    /\ err' = "OSError"
    /\ UNCHANGED <<inputs, call, aws, i, overlay_clips, video_open, final_video, output_file>>

\* one iteration of the loop that ends in one of the two time-check continues
SkipOverlay ==
    /\ pc = "loop"
    /\ i <= Len(overlays)
    /\ skip_overlay(overlays[i], video_duration)
    /\ i' = i + 1
    /\ UNCHANGED <<inputs, call, aws, pc, overlay_clips, video_open, final_video, output_file, err>>

\* the result res of the body of an iteration becomes the state
Iterate(res) ==
    /\ overlay_clips' = res.clips
    /\ IF res.err = "none"
       THEN i' = i + 1 /\ UNCHANGED <<pc, err>>
       ELSE pc' = "raised" /\ err' = res.err /\ UNCHANGED i
    /\ UNCHANGED <<inputs, call, aws, video_open, final_video, output_file>>

\* one iteration for an image_stack descriptor
ProcessImageStack ==
    /\ pc = "loop"
    /\ i <= Len(overlays)
    /\ ~skip_overlay(overlays[i], video_duration)
    /\ overlays[i].type = "image_stack"
    /\ Iterate(IF overlays[i].image_paths = <<>>
               THEN [clips |-> overlay_clips, err |-> "none"]
               ELSE stack_loop(overlays[i], i, 0, overlay_clips))

ProcessOverlay_mut ==
    /\ pc = "loop"
    /\ i <= Len(overlays)
    /\ ~skip_overlay(overlays[i], video_duration)
    /\ overlays[i].type # "image_stack"
    /\ Iterate(plain_overlay(IF i > 1
                             THEN [overlays[i] EXCEPT
                                      !.start_time = overlays[i - 1].start_time]
                             ELSE overlays[i],
                             i, overlay_clips))
\* one iteration for any other descriptor
ProcessOverlay ==
    /\ pc = "loop"
    /\ i <= Len(overlays)
    /\ ~skip_overlay(overlays[i], video_duration)
    /\ overlays[i].type # "image_stack"
    /\ Iterate(plain_overlay(overlays[i], i, overlay_clips))

\* final_video = CompositeVideoClip([video] + overlay_clips)
Composite ==
    /\ pc = "loop"
    /\ i > Len(overlays)
    /\ final_video' = CompositeVideoClip(composite_layers(VideoLayer, overlay_clips))
    /\ pc' = "write"
    /\ UNCHANGED <<inputs, call, aws, i, overlay_clips, video_open, output_file, err>>

\* final_video.write_videofile(output_path, ...) returns
WriteVideo ==
    /\ pc = "write"
    /\ output_file' = "complete"
    /\ pc' = "close"
    /\ UNCHANGED <<inputs, call, aws, i, overlay_clips, video_open, final_video, err>>

\* final_video.write_videofile(output_path, ...) raises; the encoder writes
\* straight to output_path, so what it wrote before the failure stays there
WriteVideoFails ==
    /\ pc = "write"
    /\ output_file' \in {"absent", "partial"}
    /\ pc' = "raised"
    /\ err' = "EncodeError"
    /\ UNCHANGED <<inputs, call, aws, i, overlay_clips, video_open, final_video>>

\* video.close(); final_video.close()
Close ==
    /\ pc = "close"
    /\ video_open' = FALSE
    /\ final_video' = [final_video EXCEPT !.state = "closed"]
    /\ pc' = "done"
    /\ UNCHANGED <<inputs, call, aws, i, overlay_clips, output_file, err>>

Next ==
    \/ OpenVideo
    \/ OpenVideoFails
    \/ SkipOverlay
    \/ ProcessImageStack
    \/ ProcessOverlay
    \/ Composite
    \/ WriteVideo
    \/ WriteVideoFails
    \/ Close

Spec == Init /\ [][Next]_vars

TypeOK ==
    /\ pc \in {"start", "loop", "write", "close", "done", "raised"}
    /\ i \in 1..(Len(overlays) + 1)
    /\ err \in {"none", "OSError", "ValueError", "TypeError", "EncodeError"}
    /\ output_file \in {"absent", "partial", "complete"}

(***************************************************************************)
(* Vocabulary of the properties, stated on the descriptors themselves.     *)
(***************************************************************************)
\* the descriptor fails one of the two time checks for a video of duration vd
OutOfTime(ov, vd) == ov.duration <= 0 \/ ov.start_time * vd.d >= vd.n

AcceptedPositionStrings ==
    {"center", "top", "bottom", "left", "right", "top-left", "top-right",
     "bottom-left", "bottom-right", "Center", "TOP-RIGHT"}

BadPosition(p) ==
    \/ p.kind = "other"
    \/ p.kind = "str" /\ p.s \notin AcceptedPositionStrings

BadColor(c) == c \in {NamedRed, NamedYellow}

\* the descriptor carries a position or a colour the renderer rejects
StyleFault(ov) ==
    \/ BadPosition(ov.position)
    \/ BadPosition(ov.text_position)
    \/ BadColor(ov.bg_color)
    \/ BadColor(ov.text_color)

ClipsOf(k) == {c \in 1..Len(overlay_clips) : overlay_clips[c].src = k}

LoopCompleted == pc \in {"write", "close", "done"}

\* C1: an overlay with duration <= 0 or start_time >= video duration
\* contributes no layer, and the loop goes on with the next overlay without
\* raising.
C1_SkippedOverlayContributesNothing ==
    /\ [](\A c \in 1..Len(overlay_clips) :
            ~OutOfTime(overlays[overlay_clips[c].src], video_duration))
    /\ [][(pc = "loop" /\ i <= Len(overlays) /\ OutOfTime(overlays[i], video_duration))
            => (/\ overlay_clips' = overlay_clips
                /\ i' = i + 1
                /\ pc' = "loop"
                /\ err' = "none")]_vars

\* C1 witness: a finished render whose list holds an out-of-time overlay
\* followed by an overlay that produced a layer.
C1_Witness ==
    /\ pc = "done"
    /\ \E k \in 1..Len(overlays) :
        /\ OutOfTime(overlays[k], video_duration)
        /\ ClipsOf(k) = {}
        /\ \E j \in (k + 1)..Len(overlays) : ClipsOf(j) # {}

\* C2: the compositor receives the background first and then the produced
\* layers in overlay-list order: a layer of overlay i comes before every
\* layer of an overlay j > i.
C2_LayersInOverlayOrder ==
    /\ \A p, q \in 1..Len(overlay_clips) :
        p < q => overlay_clips[p].src <= overlay_clips[q].src
    /\ final_video.state # "none" =>
        /\ Len(final_video.clips) = Len(overlay_clips) + 1
        /\ final_video.clips[1].kind = "video"
        /\ \A p \in 1..Len(overlay_clips) :
            /\ final_video.clips[p + 1] = overlay_clips[p]
            /\ final_video.clips[p + 1].kind # "video"

\* C2 witness: a composite that holds layers of two different overlays.
C2_Witness ==
    /\ final_video.state # "none"
    /\ \E p, q \in 2..Len(final_video.clips) :
        final_video.clips[p].src < final_video.clips[q].src

\* C3: the layer of image i of an image_stack with start S, duration T > 0
\* and N images starts at S + i*(T/N) and lasts T - i*(T/N), hence ends at
\* S + T.
C3_StackTiming ==
    \A c \in 1..Len(overlay_clips) :
        LET l == overlay_clips[c]
            ov == overlays[l.src]
            S == ov.start_time
            T == ov.duration
            N == Len(ov.image_paths)
        IN  l.kind = "stack" =>
              /\ T > 0 /\ N >= 1 /\ l.img \in 0..(N - 1)
              /\ l.start.n * N = (S * N + l.img * T) * l.start.d
              /\ l.duration.n * N = (T * N - l.img * T) * l.duration.d
              /\ l.start.n * l.duration.d + l.duration.n * l.start.d
                    = (S + T) * l.start.d * l.duration.d

\* C3 witness: S = 10, T = 9, N = 3 gives starts 10, 13, 16 and durations
\* 9, 6, 3.
C3_Witness ==
    \E k \in 1..Len(overlays) :
        /\ overlays[k].type = "image_stack"
        /\ overlays[k].start_time = 10 /\ overlays[k].duration = 9
        /\ Len(overlays[k].image_paths) = 3
        /\ \E a, b, c \in ClipsOf(k) :
            /\ overlay_clips[a].img = 0 /\ overlay_clips[b].img = 1
            /\ overlay_clips[c].img = 2
            /\ overlay_clips[a].start = [n |-> 10, d |-> 1]
            /\ overlay_clips[b].start = [n |-> 13, d |-> 1]
            /\ overlay_clips[c].start = [n |-> 16, d |-> 1]
            /\ overlay_clips[a].duration = [n |-> 9, d |-> 1]
            /\ overlay_clips[b].duration = [n |-> 6, d |-> 1]
            /\ overlay_clips[c].duration = [n |-> 3, d |-> 1]

\* C4: a descriptor that passes the time checks and defines both image
\* content (an existing image_path, or image_paths for an image_stack) and a
\* non-null text contributes an image layer and a text layer.
C4_ImageAndTextLayers ==
    LoopCompleted =>
        \A k \in 1..Len(overlays) :
            LET ov == overlays[k]
            IN  (/\ ~OutOfTime(ov, video_duration)
                 /\ ov.text # NONE
                 /\ \/ ov.type # "image_stack" /\ ov.image_path \in ExistingFiles
                    \/ /\ ov.type = "image_stack"
                       /\ \E n \in 1..Len(ov.image_paths) :
                            ov.image_paths[n] \in ExistingFiles)
                => /\ \E c \in ClipsOf(k) : overlay_clips[c].kind \in {"image", "stack"}
                   /\ \E c \in ClipsOf(k) : overlay_clips[c].kind = "text"

\* C5: a missing image file never aborts the render: no layer is made from
\* a missing file, every layer of an existing image and every text of a
\* plain overlay is produced once the loop has completed, and the loop is
\* left by an exception only at a descriptor with an invalid position or
\* colour.
C5_MissingImageOnlyOmitsItsLayer ==
    /\ \A c \in 1..Len(overlay_clips) :
        overlay_clips[c].kind \in {"image", "stack"}
            => overlay_clips[c].path \in ExistingFiles
    /\ LoopCompleted =>
        \A k \in 1..Len(overlays) :
            LET ov == overlays[k]
            IN  ~OutOfTime(ov, video_duration) =>
                  IF ov.type = "image_stack"
                  THEN \A n \in 1..Len(ov.image_paths) :
                          ov.image_paths[n] \in ExistingFiles
                            => \E c \in ClipsOf(k) :
                                  /\ overlay_clips[c].kind = "stack"
                                  /\ overlay_clips[c].img = n - 1
                  ELSE /\ ov.image_path \in ExistingFiles
                            => \E c \in ClipsOf(k) : overlay_clips[c].kind = "image"
                       /\ ov.text # NONE
                            => \E c \in ClipsOf(k) : overlay_clips[c].kind = "text"
    /\ (pc = "raised" /\ err \notin {"OSError", "EncodeError"})
            => StyleFault(overlays[i])

\* C5 witness: a finished render with a plain overlay whose image is missing
\* and whose text was produced, or a stack with a missing and a produced
\* image.
C5_Witness ==
    /\ pc = "done"
    /\ \E k \in 1..Len(overlays) :
        LET ov == overlays[k]
        IN  /\ ClipsOf(k) # {}
            /\ \/ ov.type # "image_stack" /\ ov.image_path = MissingFile
               \/ /\ ov.type = "image_stack"
                  /\ \E n \in 1..Len(ov.image_paths) : ov.image_paths[n] = MissingFile

\* C6: an invalid position or colour of one overlay is caught inside the
\* render: no such error leaves overlay_images_on_video.
C6_StyleErrorsAreCaught ==
    ~(pc = "raised" /\ err \in {"ValueError", "TypeError"})

\* C7: if the background video cannot be opened or has zero duration, the
\* render ends with an error and no file is written at output_path.
C7_BadVideoFailsWithoutOutput ==
    (~video_readable \/ video_duration = [n |-> 0, d |-> 1])
        => /\ output_file = "absent"
           /\ pc # "done"

\* C8: when the encode step fails, the error propagates and no (partial)
\* file exists at output_path.
C8_FailedEncodeLeavesNoFile ==
    err = "EncodeError" => (pc = "raised" /\ output_file = "absent")

\* C9: on every exit after the background video was opened (normal return,
\* error in an overlay, error in the encode) the video handle and the
\* composite clip have been closed.
C9_ClosedOnEveryExit ==
    (pc \in {"done", "raised"} /\ err # "OSError")
        => (~video_open /\ final_video.state # "open")

\* C10: the composite has the duration of the background video, and every
\* produced layer is active exactly during [start_time, start_time +
\* duration) of its overlay.
C10_CompositeKeepsVideoDuration ==
    final_video.state # "none" =>
        /\ final_video.duration = video_duration
        /\ \A c \in 1..Len(overlay_clips) :
            LET l == overlay_clips[c]
                ov == overlays[l.src]
            IN  /\ l.start = [n |-> ov.start_time, d |-> 1]
                /\ l.duration = [n |-> ov.duration, d |-> 1]

(***************************************************************************)
(* The helper functions called on their own.  The render is idle: its      *)
(* variables keep the values of RenderIdle.                                *)
(***************************************************************************)
RenderIdle ==
    /\ video_readable = FALSE
    /\ video_duration = float(0)
    /\ overlays = <<>>
    /\ pc = "idle"
    /\ i = 1
    /\ overlay_clips = <<>>
    /\ video_open = FALSE
    /\ final_video = NoComposite
    /\ output_file = "absent"
    /\ err = "none"
    /\ s3_objects = {}
    /\ event_images = <<>>

Pending == [err |-> "pending"]

\* the call of fn with args, before it is made
CallOf(fn, args) == [fn |-> fn, args |-> args, done |-> FALSE, result |-> Pending]

\* the call returns (or raises) res
Return(res) ==
    /\ call' = [call EXCEPT !.done = TRUE, !.result = res]
    /\ UNCHANGED <<render_vars, aws>>

(***************************************************************************)
(* get_position(position, video_size, overlay_size) on its own             *)
(***************************************************************************)
GeoStrings ==
    (DOMAIN mapping) \cup
    {"Center", "CENTER", "Top", "BOTTOM", "Left", "RIGHT", "Top-Left",
     "TOP-RIGHT", "Bottom-left", "BOTTOM-RIGHT",
     "middle", "Middle", "", "top right", "centre", "topleft"}

\* x and y values: ratios, the limits -1 and 1, and pixel offsets
GeoNumbers ==
    {Rat(-7, 1), Rat(-3, 2), Rat(-1, 1), Rat(-1, 2), Rat(0, 1), Rat(13, 50),
     Rat(1, 2), Rat(1, 1), Rat(3, 2), Rat(5, 1), Rat(30, 1)}

GeoPositions ==
    {PosStr(s) : s \in GeoStrings}
    \cup {PosList(x, y) : x \in GeoNumbers, y \in GeoNumbers}
    \cup {PosDict(x, y) : x \in GeoNumbers, y \in GeoNumbers}
    \cup {PosListN(n) : n \in {0, 1, 3}}
    \cup {PosOther}

GeoContainers == {<<200, 100>>, <<101, 51>>, <<10, 10>>}
GeoContents == {<<20, 10>>, <<41, 20>>, <<300, 120>>}

InitGeometry ==
    /\ RenderIdle
    /\ call \in {CallOf("get_position",
                        [position |-> p, video_size |-> vs, overlay_size |-> os]) :
                    p \in GeoPositions, vs \in GeoContainers, os \in GeoContents}

CallGetPosition ==
    /\ call.fn = "get_position"
    /\ ~call.done
    /\ Return(get_position(call.args.position, call.args.video_size,
                           call.args.overlay_size))

NextGeometry == CallGetPosition

SpecGeometry == InitGeometry /\ [][NextGeometry]_vars

\* get_position has returned or raised
GeoDone == call.fn = "get_position" /\ call.done

\* the spellings of the nine keywords, by the anchor the keyword names
LeftSpellings == {"left", "Left", "top-left", "Top-Left", "bottom-left", "Bottom-left"}
RightSpellings == {"right", "RIGHT", "top-right", "TOP-RIGHT", "bottom-right", "BOTTOM-RIGHT"}
HCenterSpellings == {"center", "Center", "CENTER", "top", "Top", "bottom", "BOTTOM"}
TopSpellings == {"top", "Top", "top-left", "Top-Left", "top-right", "TOP-RIGHT"}
BottomSpellings == {"bottom", "BOTTOM", "bottom-left", "Bottom-left", "bottom-right", "BOTTOM-RIGHT"}
VCenterSpellings == {"center", "Center", "CENTER", "left", "Left", "right", "RIGHT"}
KeywordSpellings == LeftSpellings \cup RightSpellings \cup HCenterSpellings

\* C11: for each of the nine keywords, in any letter case, get_position
\* returns x = 0 (left), W-w (right) or (W-w)//2 (center) and y = 0 (top),
\* H-h (bottom) or (H-h)//2 (center), each axis on its own.
C11_KeywordAnchors ==
    (GeoDone /\ call.args.position.kind = "str"
             /\ call.args.position.s \in KeywordSpellings) =>
        LET W == call.args.video_size[1]
            H == call.args.video_size[2]
            w == call.args.overlay_size[1]
            h == call.args.overlay_size[2]
            kw == call.args.position.s
        IN  /\ call.result.err = "none"
            /\ kw \in LeftSpellings => call.result.x = 0
            /\ kw \in RightSpellings => call.result.x = W - w
            /\ kw \in HCenterSpellings => call.result.x = (W - w) \div 2
            /\ kw \in TopSpellings => call.result.y = 0
            /\ kw \in BottomSpellings => call.result.y = H - h
            /\ kw \in VCenterSpellings => call.result.y = (H - h) \div 2

\* C11 witness: "TOP-RIGHT" in (101, 51) with content (41, 20) gives (60, 0).
C11_Witness ==
    /\ GeoDone
    /\ call.args.position = PosStr("TOP-RIGHT")
    /\ call.args.video_size = <<101, 51>>
    /\ call.args.overlay_size = <<41, 20>>
    /\ call.result = [err |-> "none", x |-> 60, y |-> 0]

\* the position is a 2-element list/tuple or a dict
NumericPosition(p) == p.kind = "dict" \/ (p.kind = "list" /\ p.len = 2)

\* v * dim truncated toward zero, for a rational v
TruncatedProduct(v, dim) ==
    IF v.n * dim >= 0 THEN (v.n * dim) \div v.d ELSE -((-(v.n * dim)) \div v.d)

\* round(v * dim) of Python: to the nearest integer, ties to the even one
RoundedProduct(v, dim) ==
    LET num == v.n * dim
        fl == num \div v.d
        twice == 2 * (num - fl * v.d)
    IN  IF twice < v.d THEN fl
        ELSE IF twice > v.d THEN fl + 1
        ELSE IF fl % 2 = 0 THEN fl ELSE fl + 1

\* the coordinate the axis value v gives in a container of extent dim, with
\* the product of a ratio converted by conv
AxisCoordinate(v, dim, conv(_, _)) ==
    IF v.n <= v.d /\ -v.n <= v.d THEN conv(v, dim) ELSE TruncatedProduct(v, 1)

\* C12 as stated: a ratio (abs(value) <= 1.0) gives round(container_dim *
\* value), any other value is the pixel offset itself.
C12_RatioIsRounded ==
    (GeoDone /\ NumericPosition(call.args.position)) =>
        /\ call.result.err = "none"
        /\ call.result.x = AxisCoordinate(call.args.position.x,
                               call.args.video_size[1], RoundedProduct)
        /\ call.result.y = AxisCoordinate(call.args.position.y,
                               call.args.video_size[2], RoundedProduct)

\* C12 amended: a ratio (abs(value) <= 1.0) gives int(container_dim *
\* value), the product truncated toward zero, any other value gives
\* int(value); each axis depends on its own value and container extent only.
C12_RatioIsTruncated ==
    (GeoDone /\ NumericPosition(call.args.position)) =>
        /\ call.result.err = "none"
        /\ call.result.x = AxisCoordinate(call.args.position.x,
                               call.args.video_size[1], TruncatedProduct)
        /\ call.result.y = AxisCoordinate(call.args.position.y,
                               call.args.video_size[2], TruncatedProduct)

\* C12 witness: {x: 13/50, y: 1/2} in (10, 10) gives (2, 5), where rounding
\* would give (3, 5).
C12_Witness ==
    /\ GeoDone
    /\ call.args.position = PosDict(Rat(13, 50), Rat(1, 2))
    /\ call.args.video_size = <<10, 10>>
    /\ call.result = [err |-> "none", x |-> 2, y |-> 5]

\* C13: a string that is none of the nine keywords raises the
\* invalid-position error (ValueError); a value that is neither a string, a
\* 2-element list/tuple nor a dict raises the unsupported-type error
\* (TypeError); no coordinates are returned.
C13_InvalidPositionsRaise ==
    GeoDone =>
        LET p == call.args.position
        IN  /\ (p.kind = "str" /\ p.s \notin KeywordSpellings)
                => call.result.err = "ValueError"
            /\ (p.kind \notin {"str", "dict"} /\ ~(p.kind = "list" /\ p.len = 2))
                => call.result.err = "TypeError"

\* C13 witness: a list of three elements raised TypeError and the string
\* "middle" raised ValueError.
C13_Witness ==
    /\ GeoDone
    /\ \/ call.args.position = PosListN(3) /\ call.result.err = "TypeError"
       \/ call.args.position = PosStr("middle") /\ call.result.err = "ValueError"

(***************************************************************************)
(* Sizes of the image layers.  An image is its pixel size <<w, h>>.        *)
(* width and height of a descriptor are None or a number.                  *)
(***************************************************************************)
OptNone == [none |-> TRUE, v |-> float(0)]
Some(v) == [none |-> FALSE, v |-> v]

RMin(a, b) == IF RLeq(a, b) THEN a ELSE b

\* img.rotate(-rotation, expand=True) for a rotation by a multiple of 90
\* degrees: a quarter turn swaps width and height
rotate_size(size, rotation) ==
    IF rotation % 180 = 90 THEN <<size[2], size[1]>> ELSE size

\* the size of transform_image(image_path, scale, rotation, opacity)
transform_image_size(size, scale, rotation) ==
    LET scaled == IF scale # float(1)
                  THEN <<int(RMulInt(size[1], scale)), int(RMulInt(size[2], scale))>>
                  ELSE size
    IN  IF rotation # 0 THEN rotate_size(scaled, rotation) ELSE scaled

\* int(video_size[k] * value) if value <= 1.0 else int(value)
resolve_extent(v, dim) ==
    IF RLeq(v, float(1)) THEN int(RMulInt(dim, v)) ELSE int(v)

image_override_mut(current, width, height, vsize) ==
    IF width.none /\ height.none THEN current
    ELSE <<IF width.none THEN current[1] ELSE resolve_extent(width.v, current[1]),
           IF height.none THEN current[2] ELSE resolve_extent(height.v, current[2])>>
\* plain image: the width/height override, a resize to (new_width, new_height)
image_override(current, width, height, vsize) ==
    IF width.none /\ height.none THEN current
    ELSE <<IF width.none THEN current[1] ELSE resolve_extent(width.v, vsize[1]),
           IF height.none THEN current[2] ELSE resolve_extent(height.v, vsize[2])>>

bg_position_mut(position) == position
\* position = (0, 0) of a plain image with bg_color
bg_position(position) == PosList(float(0), float(0))

\* the aspect-preserving resize of the mutant of image_layer
contain_both(current, tw, th) ==
    LET sf == RMin(Rat(tw, current[1]), Rat(th, current[2]))
    IN  <<int(RMulInt(current[1], sf)), int(RMulInt(current[2], sf))>>

image_layer_mut(ov, vsize) ==
    LET transformed == transform_image_size(ov.src_size, ov.scale, ov.rotation)
        stretched == image_override(transformed, ov.width, ov.height, vsize)
        resized == IF ov.fit_mode = "contain" /\ ~ov.width.none /\ ~ov.height.none
                   THEN contain_both(transformed, stretched[1], stretched[2])
                   ELSE stretched
    IN  IF _parse_hex_color(ov.bg_color).err
        THEN [err |-> "ValueError", current |-> transformed, size |-> <<0, 0>>,
              x |-> 0, y |-> 0]
        ELSE LET size == IF ov.bg_color.none THEN resized ELSE vsize
                 position == IF ov.bg_color.none THEN ov.position
                             ELSE bg_position(ov.position)
                 pos == get_position(position, vsize, size)
             IN  [err |-> pos.err, current |-> transformed, size |-> size,
                  x |-> pos.x, y |-> pos.y]
\* plain image overlay with an existing file: the layer's size and position;
\* current is the size transform_image returned
image_layer(ov, vsize) ==
    LET transformed == transform_image_size(ov.src_size, ov.scale, ov.rotation)
        resized == image_override(transformed, ov.width, ov.height, vsize)
    IN  IF _parse_hex_color(ov.bg_color).err
        THEN [err |-> "ValueError", current |-> transformed, size |-> <<0, 0>>,
              x |-> 0, y |-> 0]
        ELSE LET size == IF ov.bg_color.none THEN resized ELSE vsize
                 position == IF ov.bg_color.none THEN ov.position
                             ELSE bg_position(ov.position)
                 pos == get_position(position, vsize, size)
             IN  [err |-> pos.err, current |-> transformed, size |-> size,
                  x |-> pos.x, y |-> pos.y]

(***************************************************************************)
(* image_stack: the width/height override with fit_mode.  tw and th are    *)
(* target_width and target_height, None or an integer.                     *)
(***************************************************************************)
\* fit_mode == "stretch"
fit_stretch(current, tw, th) ==
    <<IF tw.none THEN current[1] ELSE tw.v, IF th.none THEN current[2] ELSE th.v>>

fit_contain_mut(current, tw, th) ==
    IF ~tw.none /\ ~th.none
    THEN LET sf == RMax(Rat(tw.v, current[1]), Rat(th.v, current[2]))
         IN  <<int(RMulInt(current[1], sf)), int(RMulInt(current[2], sf))>>
    ELSE IF ~tw.none
    THEN <<tw.v, int(RMulInt(current[2], Rat(tw.v, current[1])))>>
    ELSE <<int(RMulInt(current[1], Rat(th.v, current[2]))), th.v>>
\* fit_mode == "contain"
fit_contain(current, tw, th) ==
    IF ~tw.none /\ ~th.none
    THEN LET sf == RMin(Rat(tw.v, current[1]), Rat(th.v, current[2]))
         IN  <<int(RMulInt(current[1], sf)), int(RMulInt(current[2], sf))>>
    ELSE IF ~tw.none
    THEN <<tw.v, int(RMulInt(current[2], Rat(tw.v, current[1])))>>
    ELSE <<int(RMulInt(current[1], Rat(th.v, current[2]))), th.v>>

\* fit_mode == "cover": resize, then crop((left, top, right, bottom)); the
\* cropped image has the size of the box
fit_cover(current, tw, th) ==
    IF ~tw.none /\ ~th.none
    THEN LET sf == RMax(Rat(tw.v, current[1]), Rat(th.v, current[2]))
             new_width == int(RMulInt(current[1], sf))
             new_height == int(RMulInt(current[2], sf))
             left == (new_width - tw.v) \div 2
             top == (new_height - th.v) \div 2
             right == left + tw.v
             bottom == top + th.v
         IN  <<right - left, bottom - top>>
    ELSE IF ~tw.none
    THEN <<tw.v, int(RMulInt(current[2], Rat(tw.v, current[1])))>>
    ELSE <<int(RMulInt(current[1], Rat(th.v, current[2]))), th.v>>

fit_unknown_mut(current, tw, th) ==
    <<IF tw.none THEN current[1] ELSE tw.v, IF th.none THEN current[2] ELSE th.v>>
\* any other fit_mode: the branch "defaulting to 'contain'"
fit_unknown(current, tw, th) ==
    IF ~tw.none /\ ~th.none
    THEN LET sf == RMin(Rat(tw.v, current[1]), Rat(th.v, current[2]))
         IN  <<int(RMulInt(current[1], sf)), int(RMulInt(current[2], sf))>>
    ELSE IF ~tw.none
    THEN <<tw.v, int(RMulInt(current[2], Rat(tw.v, current[1])))>>
    ELSE <<int(RMulInt(current[1], Rat(th.v, current[2]))), th.v>>

\* one image of an image_stack up to the resize, before mat and rotation
stack_fit(ov, vsize) ==
    LET current == transform_image_size(ov.src_size, ov.scale, 0)
        tw == IF ov.width.none THEN OptNone
              ELSE Some(resolve_extent(ov.width.v, vsize[1]))
        th == IF ov.height.none THEN OptNone
              ELSE Some(resolve_extent(ov.height.v, vsize[2]))
        size == IF ov.width.none /\ ov.height.none THEN current
                ELSE IF ov.fit_mode = "stretch" THEN fit_stretch(current, tw, th)
                ELSE IF ov.fit_mode = "contain" THEN fit_contain(current, tw, th)
                ELSE IF ov.fit_mode = "cover" THEN fit_cover(current, tw, th)
                ELSE fit_unknown(current, tw, th)
    IN  [err |-> "none", current |-> current, tw |-> tw, th |-> th, size |-> size]

(***************************************************************************)
(* The image branches on their own.                                        *)
(***************************************************************************)
ImageSources == {<<40, 20>>, <<30, 30>>, <<3, 2>>, <<20, 45>>}
ImageScales == {Rat(1, 1), Rat(1, 2), Rat(2, 1)}
ImageWidths == {OptNone, Some(Rat(1, 2)), Some(Rat(1, 1)), Some(Rat(50, 1))}
ImageHeights == {OptNone, Some(Rat(1, 4)), Some(Rat(80, 1))}
FitModes == {"stretch", "contain", "cover", "fill", "Contain"}
ImagePositions ==
    {PosStr("center"), PosStr("top-right"), PosList(Rat(30, 1), Rat(5, 1)),
     PosDict(Rat(1, 2), Rat(1, 2))}

PlainImages ==
    [src_size : ImageSources, scale : ImageScales, rotation : {0, 90},
     width : ImageWidths, height : ImageHeights,
     fit_mode : {"stretch", "contain", "cover"},
     bg_color : {ColorNone, RedAlpha, NamedRed}, position : ImagePositions]

StackImages ==
    [src_size : ImageSources, scale : ImageScales,
     width : ImageWidths, height : ImageHeights, fit_mode : FitModes]

InitImage ==
    /\ RenderIdle
    /\ call \in {CallOf("image_layer", ov) : ov \in PlainImages}
                \cup {CallOf("stack_fit", ov) : ov \in StackImages}

CallImageLayer ==
    /\ call.fn = "image_layer"
    /\ ~call.done
    /\ Return(image_layer(call.args, video_size))

CallStackFit ==
    /\ call.fn = "stack_fit"
    /\ ~call.done
    /\ Return(stack_fit(call.args, video_size))

NextImage == CallImageLayer \/ CallStackFit

SpecImage == InitImage /\ [][NextImage]_vars

ImageDone == call.fn = "image_layer" /\ call.done
StackDone == call.fn = "stack_fit" /\ call.done

BothGiven(ov) == ~ov.width.none /\ ~ov.height.none

\* the extent a width or height value v asks for in a video of extent dim:
\* a value <= 1.0 is a ratio of dim, a larger one is pixels
TargetExtent(v, dim) ==
    IF v.n <= v.d THEN TruncatedProduct(v, dim) ELSE TruncatedProduct(v, 1)

TargetBox(ov) ==
    <<TargetExtent(ov.width.v, video_size[1]), TargetExtent(ov.height.v, video_size[2])>>

\* an image of size c resized by the single factor min(tw/c[1], th/c[2])
ContainBox(c, tw, th) ==
    IF tw * c[2] <= th * c[1]
    THEN <<tw, (c[2] * tw) \div c[1]>>
    ELSE <<(c[1] * th) \div c[2], th>>

\* C14: with both width and height given, a plain image overlay without
\* bg_color has the size of the target box, whatever its scale.
C14_OverrideWinsOverScale ==
    (ImageDone /\ BothGiven(call.args) /\ call.args.bg_color.none) =>
        call.result.size = TargetBox(call.args)

\* C14 witness: a 40x20 image with scale 2, width 0.5 and height 80 in a
\* 200x100 video has size (100, 80).
C14_Witness ==
    /\ ImageDone
    /\ call.args.src_size = <<40, 20>>
    /\ call.args.scale = [n |-> 2, d |-> 1]
    /\ call.args.width = Some([n |-> 1, d |-> 2])
    /\ call.args.height = Some([n |-> 80, d |-> 1])
    /\ call.args.bg_color.none
    /\ call.result.current \in {<<80, 40>>, <<40, 80>>}
    /\ call.result.size = <<100, 80>>

\* C15: in the image_stack override with both targets given, contain gives
\* a size within the target box and cover gives exactly the target box.
C15_ContainWithinCoverExact ==
    (StackDone /\ BothGiven(call.args)) =>
        /\ call.args.fit_mode = "contain" =>
            /\ call.result.size[1] <= TargetBox(call.args)[1]
            /\ call.result.size[2] <= TargetBox(call.args)[2]
        /\ call.args.fit_mode = "cover" =>
            call.result.size = TargetBox(call.args)

\* C15 witness: contain left one axis strictly smaller than the box.
C15_Witness ==
    /\ StackDone
    /\ BothGiven(call.args)
    /\ call.args.fit_mode = "contain"
    /\ call.result.size[1] = TargetBox(call.args)[1]
    /\ call.result.size[2] < TargetBox(call.args)[2]

\* C16: a fit_mode other than stretch/contain/cover gives the dimensions of
\* contain and raises nothing.
C16_UnknownFitModeIsContain ==
    (StackDone /\ call.args.fit_mode \notin {"stretch", "contain", "cover"}) =>
        LET c == call.result.current
            box == TargetBox(call.args)
        IN  /\ call.result.err = "none"
            /\ call.result.size =
                 IF BothGiven(call.args) THEN ContainBox(c, box[1], box[2])
                 ELSE IF ~call.args.width.none
                 THEN <<box[1], (c[2] * box[1]) \div c[1]>>
                 ELSE IF ~call.args.height.none
                 THEN <<(c[1] * box[2]) \div c[2], box[2]>>
                 ELSE c

\* C16 witness: fit_mode "fill" with both targets gave a size that is not
\* the target box.
C16_Witness ==
    /\ StackDone
    /\ call.args.fit_mode = "fill"
    /\ BothGiven(call.args)
    /\ call.result.size # TargetBox(call.args)

\* C17 as stated: a plain image overlay with fit_mode contain and both width
\* and height is resized by the single factor min(target_w/src_w,
\* target_h/src_h).
C17_PlainImageHonoursContain ==
    (ImageDone /\ BothGiven(call.args) /\ call.args.bg_color.none
               /\ call.args.fit_mode = "contain") =>
        call.result.size = ContainBox(call.result.current,
                               TargetBox(call.args)[1], TargetBox(call.args)[2])

\* C17 amended: fit_mode is honoured for an image_stack only; a stack image
\* with contain and both targets is resized by the single factor, a plain
\* image overlay is stretched to the target box whatever its fit_mode.
C17_FitModeOnlyInStack ==
    /\ (StackDone /\ BothGiven(call.args) /\ call.args.fit_mode = "contain") =>
            call.result.size = ContainBox(call.result.current,
                                   TargetBox(call.args)[1], TargetBox(call.args)[2])
    /\ (ImageDone /\ BothGiven(call.args) /\ call.args.bg_color.none
                  /\ call.args.fit_mode \in {"contain", "cover"}) =>
            call.result.size = TargetBox(call.args)

\* C17 witness: a plain image with contain whose size is the target box and
\* not the aspect-preserving one.
C17_Witness ==
    /\ ImageDone
    /\ BothGiven(call.args)
    /\ call.args.bg_color.none
    /\ call.args.fit_mode = "contain"
    /\ call.result.size = TargetBox(call.args)
    /\ call.result.size # ContainBox(call.result.current,
                               TargetBox(call.args)[1], TargetBox(call.args)[2])

\* C18: the layer of a plain image overlay with bg_color has the video's
\* frame size and sits at (0, 0), whatever its position and the transformed
\* image's size; a colour the parser accepts always gives that layer.
C18_BackgroundIsFullFrame ==
    (ImageDone /\ ~call.args.bg_color.none) =>
        /\ ~BadColor(call.args.bg_color) => call.result.err = "none"
        /\ call.result.err = "none" =>
            /\ call.result.size = video_size
            /\ call.result.x = 0
            /\ call.result.y = 0

\* C18 witness: position [30, 5] and a transformed image larger than its
\* override, placed at (0, 0) with the frame size.
C18_Witness ==
    /\ ImageDone
    /\ ~call.args.bg_color.none
    /\ call.args.position = PosList([n |-> 30, d |-> 1], [n |-> 5, d |-> 1])
    /\ call.result.size = <<200, 100>>
    /\ call.result.x = 0 /\ call.result.y = 0

(***************************************************************************)
(* transform_image: the alpha channel.  alpha.point(f) maps every pixel's  *)
(* alpha value p in 0..255 to f(p).                                        *)
(***************************************************************************)
alpha_point_mut(p, opacity) == int(RMulInt(255, opacity))
\* lambda p: int(p * opacity)
alpha_point(p, opacity) == int(RMulInt(p, opacity))

\* the alpha of a pixel of transform_image(image_path, scale, rotation,
\* opacity) whose alpha in the loaded image is p
transform_image_alpha(p, opacity) ==
    IF RLt(opacity, float(1)) THEN alpha_point(p, opacity) ELSE p

Alphas == 0..255
Opacities ==
    {Rat(0, 1), Rat(1, 4), Rat(1, 2), Rat(3, 4), Rat(99, 100), Rat(1, 1), Rat(3, 2)}

InitOpacity ==
    /\ RenderIdle
    /\ call \in {CallOf("transform_image", [alpha |-> p, opacity |-> o]) :
                    p \in Alphas, o \in Opacities}

CallTransformImage ==
    /\ call.fn = "transform_image"
    /\ ~call.done
    /\ Return([err |-> "none",
               alpha |-> transform_image_alpha(call.args.alpha, call.args.opacity)])

NextOpacity == CallTransformImage

SpecOpacity == InitOpacity /\ [][NextOpacity]_vars

OpacityDone == call.fn = "transform_image" /\ call.done

\* C19: an opacity below 1.0 scales a pixel's alpha to floor(alpha * opacity),
\* which never exceeds the old alpha and keeps 0 at 0; an opacity of 1.0 or
\* more leaves the alpha as it was.
C19_OpacityScalesAlpha ==
    OpacityDone =>
        LET old == call.args.alpha
            o == call.args.opacity
        IN  IF o.n < o.d
            THEN /\ call.result.alpha = (old * o.n) \div o.d
                 /\ call.result.alpha <= old
                 /\ old = 0 => call.result.alpha = 0
            ELSE call.result.alpha = old

\* C19 witness: alpha 128 with opacity 0.5 gave 64.
C19_Witness ==
    /\ OpacityDone
    /\ call.args.alpha = 128
    /\ call.args.opacity = [n |-> 1, d |-> 2]
    /\ call.result.alpha = 64

(***************************************************************************)
(* evaluate_template_text(text, template_vars).  A string is the sequence  *)
(* of its characters.  A value of template_vars is None, a str or an int;  *)
(* a name that is no key of the mapping is outside DOMAIN template_vars.   *)
(***************************************************************************)
MaxLines == 2

PyNone == [kind |-> "None", s |-> <<>>, v |-> 0]
StrVal(s) == [kind |-> "str", s |-> s, v |-> 0]
IntVal(v) == [kind |-> "int", s |-> <<>>, v |-> v]

DigitChars == <<"0", "1", "2", "3", "4", "5", "6", "7", "8", "9">>

RECURSIVE digits(_)
digits(n) ==
    IF n < 10 THEN <<DigitChars[n + 1]>>
    ELSE digits(n \div 10) \o <<DigitChars[(n % 10) + 1]>>

\* str(value)
str(value) == IF value.kind = "int" THEN digits(value.v) ELSE value.s

\* the characters \w matches, among those the texts are made of
WordChars ==
    {"r", "c", "x", "t", "b", "h", "i", "A", "l", "K", "T", "N", "o", "n", "e",
     "5", "4", "2", "7", "_"}

RECURSIVE split_from(_, _, _)
split_from(text, p, cur) ==
    IF p > Len(text) THEN <<cur>>
    ELSE IF text[p] = "\n" THEN <<cur>> \o split_from(text, p + 1, <<>>)
    ELSE split_from(text, p + 1, Append(cur, text[p]))

\* text.split('\n')
split(text) == split_from(text, 1, <<>>)

\* '\n'.join(lines)
RECURSIVE join(_)
join(lines) ==
    IF lines = <<>> THEN <<>>
    ELSE IF Len(lines) = 1 THEN lines[1]
    ELSE lines[1] \o <<"\n">> \o join(Tail(lines))

\* the last position of the longest run of \w characters that starts at p
\* (p - 1 when there is none)
RECURSIVE word_run(_, _)
word_run(line, p) ==
    IF p <= Len(line) /\ line[p] \in WordChars THEN word_run(line, p + 1) ELSE p - 1

RECURSIVE findall_from(_, _)
findall_from(line, p) ==
    IF p > Len(line) THEN <<>>
    ELSE LET e == word_run(line, p + 2)
         IN  IF /\ p + 3 <= Len(line)
                /\ line[p] = "$"
                /\ line[p + 1] = "{"
                /\ e >= p + 2
                /\ e + 1 <= Len(line)
                /\ line[e + 1] = "}"
             THEN <<SubSeq(line, p + 2, e)>> \o findall_from(line, e + 2)
             ELSE findall_from(line, p + 1)

\* re.findall(r'\$\{(\w+)\}', line): the names, left to right
findall(line) == findall_from(line, 1)

RECURSIVE replace_from(_, _, _, _)
replace_from(s, old, new, p) ==
    IF p > Len(s) THEN <<>>
    ELSE IF p + Len(old) - 1 <= Len(s) /\ SubSeq(s, p, p + Len(old) - 1) = old
    THEN new \o replace_from(s, old, new, p + Len(old))
    ELSE <<s[p]>> \o replace_from(s, old, new, p + 1)

\* s.replace(old, new): every occurrence of old, left to right
replace(s, old, new) == replace_from(s, old, new, 1)

\* f'${{{var_name}}}'
placeholder(var_name) == <<"$", "{">> \o var_name \o <<"}">>

\* template_vars.get(var_name)
get(template_vars, var_name) ==
    IF var_name \in DOMAIN template_vars THEN template_vars[var_name] ELSE PyNone

skip_line_mut(matches, template_vars) ==
    \A k \in 1..Len(matches) : get(template_vars, matches[k]).kind = "None"
\* skip_line after the loop over matches
skip_line(matches, template_vars) ==
    \E k \in 1..Len(matches) : get(template_vars, matches[k]).kind = "None"

\* the loop over matches: one replace per match, each on the line the
\* replaces before it have produced
RECURSIVE substituted_line(_, _, _)
substituted_line(line, matches, template_vars) ==
    IF matches = <<>> THEN line
    ELSE substituted_line(
             replace(line, placeholder(Head(matches)),
                     str(get(template_vars, Head(matches)))),
             Tail(matches), template_vars)

RECURSIVE result_lines(_, _)
result_lines(lines, template_vars) ==
    IF lines = <<>> THEN <<>>
    ELSE LET matches == findall(Head(lines))
             rest == result_lines(Tail(lines), template_vars)
         IN  IF skip_line(matches, template_vars) THEN rest
             ELSE <<substituted_line(Head(lines), matches, template_vars)>> \o rest

evaluate_template_text(text, template_vars) ==
    join(result_lines(split(text), template_vars))

(***************************************************************************)
(* Template texts.  A line is written as its parts, literal text and       *)
(* references ${name}; the text handed to evaluate_template_text is the    *)
(* characters of the lines joined by newlines.  r stands for runner, c for *)
(* category, x for a name that is never a key.                             *)
(***************************************************************************)
Lit(s) == [ref |-> FALSE, s |-> s]
Ref(name) == [ref |-> TRUE, s |-> name]

RECURSIVE line_text(_)
line_text(parts) ==
    IF parts = <<>> THEN <<>>
    ELSE (IF Head(parts).ref THEN placeholder(Head(parts).s) ELSE Head(parts).s)
         \o line_text(Tail(parts))

template_text(lines) == join([k \in 1..Len(lines) |-> line_text(lines[k])])

TemplateLines ==
    {<<Lit(<<"c", ":">>), Ref(<<"c">>)>>,
     <<Ref(<<"r">>), Lit(<<" ">>), Ref(<<"c">>)>>,
     <<Ref(<<"c">>), Lit(<<" ">>), Ref(<<"r">>)>>,
     <<Ref(<<"r">>), Ref(<<"r">>)>>,
     <<Lit(<<"h", "i">>)>>,
     <<Lit(<<"h", "i", " ">>), Ref(<<"x">>)>>,
     <<Lit(<<"$", "{", "}">>)>>,
     <<>>}

RunnerValues == {PyNone, StrVal(<<"A", "l">>), StrVal(<<"$", "{", "c", "}">>)}
CategoryValues == {PyNone, StrVal(<<"5", "K">>), StrVal(<<>>), IntVal(42)}

TemplateVars ==
    {[n \in {<<"r">>, <<"c">>} |-> IF n = <<"r">> THEN rv ELSE cv] :
        rv \in RunnerValues, cv \in CategoryValues}
    \cup {[n \in {<<"r">>} |-> rv] : rv \in RunnerValues}

InitTemplate ==
    /\ RenderIdle
    /\ call \in {CallOf("evaluate_template_text",
                        [lines |-> ls, text |-> template_text(ls), template_vars |-> tv]) :
                    ls \in SeqsUpTo(TemplateLines, MaxLines), tv \in TemplateVars}

CallEvaluateTemplateText ==
    /\ call.fn = "evaluate_template_text"
    /\ ~call.done
    /\ Return([err |-> "none",
               text |-> evaluate_template_text(call.args.text, call.args.template_vars)])

NextTemplate == CallEvaluateTemplateText

SpecTemplate == InitTemplate /\ [][NextTemplate]_vars

TemplateDone == call.fn = "evaluate_template_text" /\ call.done

\* the variable is absent from the mapping or mapped to None
MissingVar(tv, name) == name \notin DOMAIN tv \/ tv[name].kind = "None"

LineIsKept(parts, tv) ==
    \A k \in 1..Len(parts) : parts[k].ref => ~MissingVar(tv, parts[k].s)

\* the line with each reference replaced by the text of its value
RECURSIVE LineWithValues(_, _)
LineWithValues(parts, tv) ==
    IF parts = <<>> THEN <<>>
    ELSE (IF Head(parts).ref THEN str(tv[Head(parts).s]) ELSE Head(parts).s)
         \o LineWithValues(Tail(parts), tv)

RECURSIVE ExpectedLines(_, _)
ExpectedLines(lines, tv) ==
    IF lines = <<>> THEN <<>>
    ELSE IF LineIsKept(Head(lines), tv)
    THEN <<LineWithValues(Head(lines), tv)>> \o ExpectedLines(Tail(lines), tv)
    ELSE ExpectedLines(Tail(lines), tv)

RECURSIVE WithNewlines(_)
WithNewlines(ls) ==
    IF ls = <<>> THEN <<>>
    ELSE IF Tail(ls) = <<>> THEN Head(ls)
    ELSE Head(ls) \o <<"\n">> \o WithNewlines(Tail(ls))

\* C20: the output is the lines that reference no missing variable, in
\* their order, each with every ${name} replaced by str(value); a line that
\* references a missing variable is left out.
C20_AllOrNothingPerLine ==
    TemplateDone =>
        call.result.text =
            WithNewlines(ExpectedLines(call.args.lines, call.args.template_vars))

\* C20, the part about which lines are emitted: the output has as many
\* lines as the text has lines without a missing variable.
C20_LinesWithMissingVarsAreDropped ==
    TemplateDone =>
        LET kept == ExpectedLines(call.args.lines, call.args.template_vars)
        IN  IF kept = <<>> THEN call.result.text = <<>>
            ELSE Len(SelectSeq(call.result.text, LAMBDA ch : ch = "\n"))
                    = Len(kept) - 1

HasNoPlaceholder(lines) ==
    \A k \in 1..Len(lines) : \A j \in 1..Len(lines[k]) : ~lines[k][j].ref

\* C21: a text without any ${name} placeholder comes back unchanged, blank
\* lines included, whatever the mapping.
C21_NoPlaceholderUnchanged ==
    (TemplateDone /\ HasNoPlaceholder(call.args.lines)) =>
        call.result.text = call.args.text

\* C21 witness: two lines, the second blank, evaluated under a mapping with
\* a None value, came back as they were.
C21_Witness ==
    /\ TemplateDone
    /\ call.args.text = <<"h", "i", "\n">>
    /\ call.args.template_vars[<<"r">>] = PyNone
    /\ call.result.text = <<"h", "i", "\n">>

(***************************************************************************)
(* process_reel_config(reel_config, template_vars).  An overlay of the     *)
(* config has a type (NONE when the key is absent) and may have a text,    *)
(* given as the parts of its lines; text is its characters.                *)
(***************************************************************************)
NoText(type) == [type |-> type, has_text |-> FALSE, lines |-> <<>>, text |-> <<>>]
WithText(type, lines) ==
    [type |-> type, has_text |-> TRUE, lines |-> lines, text |-> template_text(lines)]

ConfigTexts ==
    {<<<<Lit(<<"h", "i">>)>>>>,
     <<<<Lit(<<"c", ":">>), Ref(<<"c">>)>>>>,
     <<<<Ref(<<"c">>), Lit(<<" ">>), Ref(<<"r">>)>>>>,
     <<<<Lit(<<"h", "i">>)>>, <<Lit(<<"h", "i", " ">>), Ref(<<"x">>)>>>>}

OverlayTypes == {"text", "image", NONE}

ConfigOverlays ==
    {NoText(t) : t \in OverlayTypes}
    \cup {WithText(t, ls) : t \in OverlayTypes, ls \in ConfigTexts}

\* the body of the loop over config['overlays']
process_overlay(overlay, template_vars) ==
    IF overlay.type = "text" /\ overlay.has_text
    THEN [overlay EXCEPT !.text = evaluate_template_text(overlay.text, template_vars)]
    ELSE overlay

\* the overlays of the returned config and, as reel_config, those of the
\* argument after the call: the loop works on a deepcopy
process_reel_config(reel_config, template_vars) ==
    [err |-> "none",
     config |-> [k \in 1..Len(reel_config) |->
                    process_overlay(reel_config[k], template_vars)],
     reel_config |-> reel_config]

InitConfig ==
    /\ RenderIdle
    /\ call \in {CallOf("process_reel_config", [reel_config |-> c, template_vars |-> tv]) :
                    c \in SeqsUpTo(ConfigOverlays, MaxOverlays), tv \in TemplateVars}

CallProcessReelConfig ==
    /\ call.fn = "process_reel_config"
    /\ ~call.done
    /\ Return(process_reel_config(call.args.reel_config, call.args.template_vars))

NextConfig == CallProcessReelConfig

SpecConfig == InitConfig /\ [][NextConfig]_vars

ConfigDone == call.fn = "process_reel_config" /\ call.done

\* the characters of s hold a ${name} placeholder
RECURSIVE HoldsPlaceholderFrom(_, _)
HoldsPlaceholderFrom(s, p) ==
    /\ p + 3 <= Len(s)
    /\ \/ /\ s[p] = "$"
          /\ s[p + 1] = "{"
          /\ \E e \in (p + 3)..Len(s) :
                /\ s[e] = "}"
                /\ \A j \in (p + 2)..(e - 1) : s[j] \in WordChars
       \/ HoldsPlaceholderFrom(s, p + 1)

HoldsPlaceholder(s) == HoldsPlaceholderFrom(s, 1)

SameButText(a, b) ==
    a.type = b.type /\ a.has_text = b.has_text /\ a.lines = b.lines

\* C22: after process_reel_config every overlay with a text, whatever its
\* type, carries the substituted text and no ${name} placeholder; the input
\* config is unmodified and the result has the same overlays in the same
\* order.
C22_EveryTextSubstituted ==
    ConfigDone =>
        LET in == call.args.reel_config
            out == call.result.config
        IN  /\ call.result.reel_config = in
            /\ Len(out) = Len(in)
            /\ \A k \in 1..Len(in) :
                /\ SameButText(out[k], in[k])
                /\ in[k].has_text =>
                    /\ out[k].text =
                         WithNewlines(ExpectedLines(in[k].lines, call.args.template_vars))
                    /\ ~HoldsPlaceholder(out[k].text)
                /\ ~in[k].has_text => out[k] = in[k]

\* C22, the part that holds: the overlays of type text carry the result of
\* evaluate_template_text, every other overlay is as it was, the input is
\* unmodified and the order is kept.
C22_TextTypeOverlaysSubstituted ==
    ConfigDone =>
        LET in == call.args.reel_config
            out == call.result.config
        IN  /\ call.result.reel_config = in
            /\ Len(out) = Len(in)
            /\ \A k \in 1..Len(in) :
                /\ SameButText(out[k], in[k])
                /\ (in[k].type = "text" /\ in[k].has_text) =>
                    out[k].text =
                        evaluate_template_text(in[k].text, call.args.template_vars)
                /\ ~(in[k].type = "text" /\ in[k].has_text) => out[k] = in[k]

(***************************************************************************)
(* Text measuring and wrapping.  draw.textbbox((0, 0), s, font) is         *)
(* modelled by a font whose glyphs have the advance widths of char_width   *)
(* and one line height; a stroke widens the box by stroke_width on every   *)
(* side.                                                                   *)
(***************************************************************************)
MaxTextLen == 5

PxNone == [none |-> TRUE, v |-> 0]
Px(v) == [none |-> FALSE, v |-> v]

char_width(c) == IF c = "W" THEN 3 ELSE 1
line_height(s) == IF s = <<>> THEN 0 ELSE 2

RECURSIVE text_width(_)
text_width(s) == IF s = <<>> THEN 0 ELSE char_width(Head(s)) + text_width(Tail(s))

\* (bbox[2] - bbox[0], bbox[3] - bbox[1]) of draw.textbbox((0, 0), s, font=font,
\* stroke_width=stroke_width)
textbbox_size(s, stroke_width) ==
    <<text_width(s) + 2 * stroke_width, line_height(s) + 2 * stroke_width>>

Whitespace == {" ", "\n"}

RECURSIVE lstrip(_)
lstrip(s) == IF s # <<>> /\ Head(s) \in Whitespace THEN lstrip(Tail(s)) ELSE s

RECURSIVE rstrip(_)
rstrip(s) ==
    IF s # <<>> /\ s[Len(s)] \in Whitespace THEN rstrip(SubSeq(s, 1, Len(s) - 1)) ELSE s

\* s.strip()
strip(s) == rstrip(lstrip(s))

RECURSIVE split_on_from(_, _, _, _)
split_on_from(s, sep, p, cur) ==
    IF p > Len(s) THEN <<cur>>
    ELSE IF s[p] = sep THEN <<cur>> \o split_on_from(s, sep, p + 1, <<>>)
    ELSE split_on_from(s, sep, p + 1, Append(cur, s[p]))

\* s.split(sep) for a separator of one character
split_on(s, sep) == split_on_from(s, sep, 1, <<>>)

\* " ".join(words)
RECURSIVE join_spaces(_)
join_spaces(words) ==
    IF words = <<>> THEN <<>>
    ELSE IF Len(words) = 1 THEN words[1]
    ELSE words[1] \o <<" ">> \o join_spaces(Tail(words))

\* "max_width_px and ...": None and 0 are false
truthy(max_width_px) == ~max_width_px.none /\ max_width_px.v # 0

\* the loop over the words of a paragraph and the "if current" after it
RECURSIVE wrap_words(_, _, _)
wrap_words(words, current, max_width_px) ==
    IF words = <<>>
    THEN IF current # <<>> THEN <<join_spaces(current)>> ELSE <<>>
    ELSE LET w == Head(words)
             test == strip(join_spaces(Append(current, w)))
             w_px == textbbox_size(test, 0)[1]
         IN  IF truthy(max_width_px) /\ w_px > max_width_px.v /\ current # <<>>
             THEN <<join_spaces(current)>> \o wrap_words(Tail(words), <<w>>, max_width_px)
             ELSE wrap_words(Tail(words), Append(current, w), max_width_px)

wrap_paragraph(paragraph, max_width_px) ==
    IF strip(paragraph) = <<>> THEN <<<<>>>>
    ELSE wrap_words(split_on(paragraph, " "), <<>>, max_width_px)

RECURSIVE wrap_paragraphs(_, _)
wrap_paragraphs(paragraphs, max_width_px) ==
    IF paragraphs = <<>> THEN <<>>
    ELSE wrap_paragraph(Head(paragraphs), max_width_px)
         \o wrap_paragraphs(Tail(paragraphs), max_width_px)

_wrap_text(text, max_width_px) == wrap_paragraphs(split_on(text, "\n"), max_width_px)

RECURSIVE max_width_of(_, _)
max_width_of(lines, stroke_width) ==
    IF lines = <<>> THEN 0
    ELSE LET w == textbbox_size(Head(lines), stroke_width)[1]
             rest == max_width_of(Tail(lines), stroke_width)
         IN  IF w >= rest THEN w ELSE rest

RECURSIVE sum_heights(_, _)
sum_heights(lines, stroke_width) ==
    IF lines = <<>> THEN 0
    ELSE textbbox_size(Head(lines), stroke_width)[2] + sum_heights(Tail(lines), stroke_width)

\* some character of the lines has a glyph that draw.text paints
paints(lines) ==
    \E k \in 1..Len(lines) : \E j \in 1..Len(lines[k]) : lines[k][j] \notin Whitespace

text_image_size(lines, st, pad) ==
    LET text_w == max_width_of(lines, st.stroke_width)
        text_h == sum_heights(lines, st.stroke_width)
                    + (IF Len(lines) > 1 THEN Len(lines) - 1 ELSE 0) * st.line_spacing
        img_w == IF text_w + 2 * pad >= 1 THEN text_w + 2 * pad ELSE 1
        img_h == IF text_h + 2 * pad >= 1 THEN text_h + 2 * pad ELSE 1
    IN  <<img_w, img_h>>

make_text_rgba_image_mut(text, max_width_px, st) ==
    LET lines == _wrap_text(text, max_width_px)
        bg == _parse_hex_color(st.bg_color)
    IN  IF bg.err
        THEN [err |-> "ValueError", lines |-> lines, size |-> <<0, 0>>,
              bg_alpha |-> 0, painted |-> FALSE]
        ELSE [err |-> "none", lines |-> lines,
              size |-> text_image_size(lines, st, IF paints(lines) THEN st.padding ELSE 0),
              bg_alpha |-> IF bg.none THEN 0 ELSE bg.rgba[4],
              painted |-> paints(lines)]
\* make_text_rgba_image(text, max_width_px, **style): the wrapped lines, the
\* image's size, the alpha of its background and whether a glyph is painted
make_text_rgba_image(text, max_width_px, st) ==
    LET lines == _wrap_text(text, max_width_px)
        bg == _parse_hex_color(st.bg_color)
    IN  IF bg.err
        THEN [err |-> "ValueError", lines |-> lines, size |-> <<0, 0>>,
              bg_alpha |-> 0, painted |-> FALSE]
        ELSE [err |-> "none", lines |-> lines,
              size |-> text_image_size(lines, st, st.padding),
              bg_alpha |-> IF bg.none THEN 0 ELSE bg.rgba[4],
              painted |-> paints(lines)]

(***************************************************************************)
(* _wrap_text and make_text_rgba_image on their own.                       *)
(***************************************************************************)
TextChars == {"a", "W", " ", "\n"}
Texts == SeqsUpTo(TextChars, MaxTextLen)
MaxWidths == {PxNone, Px(0), Px(2), Px(3)}

TextStyles ==
    [padding : {0, 10}, stroke_width : {0, 1}, line_spacing : {6},
     bg_color : {ColorNone, RedAlpha}]

InitText ==
    /\ RenderIdle
    /\ call \in {CallOf("_wrap_text", [text |-> t, max_width_px |-> m]) :
                    t \in Texts, m \in MaxWidths}
                \cup {CallOf("make_text_rgba_image",
                             [text |-> t, max_width_px |-> PxNone, style |-> st]) :
                         t \in SeqsUpTo(TextChars, 2), st \in TextStyles}

CallWrapText ==
    /\ call.fn = "_wrap_text"
    /\ ~call.done
    /\ Return([err |-> "none",
               lines |-> _wrap_text(call.args.text, call.args.max_width_px)])

CallMakeTextRgbaImage ==
    /\ call.fn = "make_text_rgba_image"
    /\ ~call.done
    /\ Return(make_text_rgba_image(call.args.text, call.args.max_width_px,
                                   call.args.style))

NextText == CallWrapText \/ CallMakeTextRgbaImage

SpecText == InitText /\ [][NextText]_vars

TextImageDone == call.fn = "make_text_rgba_image" /\ call.done
WrapDone == call.fn = "_wrap_text" /\ call.done

FullyTransparent(res) == res.bg_alpha = 0 /\ ~res.painted

\* C23 as stated: zero-length text gives no error and a 1x1 fully
\* transparent image for every style.
C23_EmptyTextIsOneByOne ==
    (TextImageDone /\ call.args.text = <<>>) =>
        /\ call.result.err = "none"
        /\ call.result.size = <<1, 1>>
        /\ FullyTransparent(call.result)

\* C23 amended: zero-length text gives no error and, without a stroke, an
\* image whose sides are max(1, 2 * padding), 1x1 only for padding 0; it is
\* fully transparent exactly when its background colour is.
C23_EmptyTextIsPaddingBox ==
    (TextImageDone /\ call.args.text = <<>>) =>
        LET side == IF 2 * call.args.style.padding >= 1
                    THEN 2 * call.args.style.padding ELSE 1
        IN  /\ call.result.err = "none"
            /\ call.args.style.stroke_width = 0 => call.result.size = <<side, side>>
            /\ ~call.result.painted
            /\ FullyTransparent(call.result)
                 <=> (call.args.style.bg_color.none \/ call.result.bg_alpha = 0)
            /\ call.args.style.bg_color.none => FullyTransparent(call.result)

\* C23 witness: zero-length text with the default padding 10 and no
\* background gave a transparent 20x20 image.
C23_Witness ==
    /\ TextImageDone
    /\ call.args.text = <<>>
    /\ call.args.style.padding = 10
    /\ call.args.style.stroke_width = 0
    /\ call.args.style.bg_color.none
    /\ call.result.size = <<20, 20>>
    /\ FullyTransparent(call.result)

\* the words of a line or paragraph: its pieces between single spaces
WordsOf(s) == split_on(s, " ")

RECURSIVE WordsOfLines(_)
WordsOfLines(lines) ==
    IF lines = <<>> THEN <<>> ELSE WordsOf(Head(lines)) \o WordsOfLines(Tail(lines))

IsBlank(s) == \A k \in 1..Len(s) : s[k] \in Whitespace

\* the text has one paragraph (no newline)
OneParagraph(text) == \A k \in 1..Len(text) : text[k] # "\n"

LineWidth(s) == text_width(s)

\* the number of words of the line that are not empty
WordCount(s) == Len(SelectSeq(WordsOf(s), LAMBDA w : w # <<>>))

\* C26: for a one-paragraph text, no word is broken or lost, a line of more
\* than one word measures at most max_width_px, a word wider than
\* max_width_px has a line of its own, a blank paragraph gives one empty
\* line and without max_width_px the paragraph is one line.
C26_WrapKeepsWordsAndWidth ==
    (WrapDone /\ OneParagraph(call.args.text)) =>
        LET text == call.args.text
            max == call.args.max_width_px
            lines == call.result.lines
        IN  /\ IsBlank(text) => lines = <<<<>>>>
            /\ ~IsBlank(text) =>
                /\ WordsOfLines(lines) = WordsOf(text)
                /\ max.none => lines = <<text>>
                /\ (~max.none /\ max.v > 0) =>
                    \A k \in 1..Len(lines) :
                        /\ WordCount(lines[k]) > 1 => LineWidth(lines[k]) <= max.v
                        /\ \A j \in 1..Len(WordsOf(lines[k])) :
                              LineWidth(WordsOf(lines[k])[j]) > max.v
                                 => WordCount(lines[k]) = 1

\* C26, the part that holds: no word is broken or lost, a blank paragraph
\* gives one empty line, without max_width_px the paragraph is one line, a
\* word wider than max_width_px has a line of its own, and a line of more
\* than one word measures at most max_width_px once the spaces at its ends
\* are left out.
C26_WrapKeepsWords ==
    (WrapDone /\ OneParagraph(call.args.text)) =>
        LET text == call.args.text
            max == call.args.max_width_px
            lines == call.result.lines
        IN  /\ IsBlank(text) => lines = <<<<>>>>
            /\ ~IsBlank(text) =>
                /\ WordsOfLines(lines) = WordsOf(text)
                /\ max.none => lines = <<text>>
                /\ (~max.none /\ max.v > 0) =>
                    \A k \in 1..Len(lines) :
                        /\ WordCount(lines[k]) > 1 =>
                              LineWidth(strip(lines[k])) <= max.v
                        /\ \A j \in 1..Len(WordsOf(lines[k])) :
                              LineWidth(WordsOf(lines[k])[j]) > max.v
                                 => WordCount(lines[k]) = 1

\* the layers in overlay_clips that descriptor k produced
LayersFrom(k) == SelectSeq(overlay_clips, LAMBDA c : c.src = k)

\* the layers descriptor ov produces as overlay k of a list that holds
\* nothing else, up to the first exception
LayersAlone(ov, k) ==
    IF OutOfTime(ov, video_duration) THEN <<>>
    ELSE IF ov.type = "image_stack"
    THEN IF ov.image_paths = <<>> THEN <<>> ELSE stack_loop(ov, k, 0, <<>>).clips
    ELSE plain_overlay(ov, k, <<>>).clips

\* iteration k of the loop has run (to its end or to an exception)
HasRun(k) == k < i \/ (k = i /\ pc = "raised" /\ video_open)

RDiv(a, b) == Rat(a.n * b.d, a.d * b.n)

RECURSIVE chars_of_lines(_)
chars_of_lines(lines) ==
    IF lines = <<>> THEN <<>> ELSE Head(lines) \o chars_of_lines(Tail(lines))

\* the characters of _get_character_positions(wrapped_text, ...), line by
\* line; the newlines are no entries
char_positions(wrapped_text) == chars_of_lines(split_on(wrapped_text, "\n"))

DivisionByZero == [n |-> 0, d |-> 0]

char_opacity_mut(t, char_index, char_delay, char_fade_duration) ==
    LET char_start_time == RMulInt(char_index, char_delay)
        char_end_time == RAdd(char_start_time, char_fade_duration)
    IN  IF RLt(t, char_start_time) THEN float(0)
        ELSE IF RLt(char_end_time, t) THEN float(1)
        ELSE IF char_fade_duration.n = 0 THEN DivisionByZero
        ELSE RDiv(RSub(t, char_start_time), char_fade_duration)
\* char_opacity of the character with index char_index at time t; the
\* division raises when char_fade_duration is 0
char_opacity(t, char_index, char_delay, char_fade_duration) ==
    LET char_start_time == RMulInt(char_index, char_delay)
        char_end_time == RAdd(char_start_time, char_fade_duration)
    IN  IF RLt(t, char_start_time) THEN float(0)
        ELSE IF RLeq(char_end_time, t) THEN float(1)
        ELSE IF char_fade_duration.n = 0 THEN DivisionByZero
        ELSE RDiv(RSub(t, char_start_time), char_fade_duration)

\* make_frame(t) on the buffer base: the factors, the frame and the base
\* buffer after the call (the frame is made on a copy)
make_frame(t, base, a) ==
    LET n == Len(char_positions(a.wrapped_text))
        factors == [k \in 1..n |->
                       char_opacity(t, k - 1, a.char_delay, a.char_fade_duration)]
        raised == \E k \in 1..n : factors[k] = DivisionByZero
    IN  [err |-> IF raised THEN "ZeroDivisionError" ELSE "none",
         base_array |-> base,
         has_frame |-> TRUE,
         t |-> t,
         factors |-> factors,
         frame |-> IF raised THEN <<>>
                   ELSE [k \in 1..n |->
                            IF RLt(factors[k], float(1))
                            THEN int(RMulInt(base[k], factors[k]))
                            ELSE base[k]]]

WrappedTexts == {<<"a", "b">>, <<"a", " ", "b">>, <<"a", "\n", "b", "c">>}
CharDelays == {Rat(0, 1), Rat(1, 20), Rat(1, 10)}
CharFadeDurations == {Rat(0, 1), Rat(3, 20), Rat(1, 10)}
FrameTimes == {Rat(k, 20) : k \in 0..7}

\* the alpha of the characters' regions in the base image (255, or less
\* under an opacity below 1)
BaseAlphas == {255, 128}

base_image(wrapped_text, alpha) ==
    [k \in 1..Len(char_positions(wrapped_text)) |-> alpha]

InitAnimation ==
    /\ RenderIdle
    /\ call \in {CallOf("make_animated_text_clip",
                        [wrapped_text |-> w, alpha |-> al,
                         char_delay |-> cd, char_fade_duration |-> fd]) :
                    w \in WrappedTexts, al \in BaseAlphas,
                    cd \in CharDelays, fd \in CharFadeDurations}

\* make_animated_text_clip returns the clip; no frame has been made
CallMakeAnimatedTextClip ==
    /\ call.fn = "make_animated_text_clip"
    /\ ~call.done
    /\ Return([err |-> "none", base_array |-> base_image(call.args.wrapped_text, call.args.alpha),
               has_frame |-> FALSE, t |-> float(0), factors |-> <<>>, frame |-> <<>>])

\* the clip is asked for its frame at some time t, in any order
MakeFrame ==
    /\ call.fn = "make_animated_text_clip"
    /\ call.done
    /\ call.result.err = "none"
    /\ \E t \in FrameTimes :
          call' = [call EXCEPT !.result = make_frame(t, call.result.base_array, call.args)]
    /\ UNCHANGED <<render_vars, aws>>

NextAnimation == CallMakeAnimatedTextClip \/ MakeFrame

SpecAnimation == InitAnimation /\ [][NextAnimation]_vars

\* the number of characters of s that are no newline
RECURSIVE CountChars(_)
CountChars(s) ==
    IF s = <<>> THEN 0
    ELSE (IF Head(s) = "\n" THEN 0 ELSE 1) + CountChars(Tail(s))

\* the reveal factor of character idx (from 0) at time t, as n/d
RevealFactor(t, idx, delay, fade) ==
    LET start == [n |-> idx * delay.n, d |-> delay.d]
        \* t - start as the fraction dn / dd, dd > 0
        dn == t.n * start.d - start.n * t.d
        dd == t.d * start.d
    IN  IF dn < 0 THEN <<0, 1>>
        ELSE IF dn * fade.d >= fade.n * dd THEN <<1, 1>>
        ELSE <<dn * fade.d, dd * fade.n>>

SameFraction(r, f) == r.d # 0 /\ r.n * f[2] = f[1] * r.d

FrameMade(c) == c.fn = "make_animated_text_clip" /\ c.done /\ c.result.has_frame

\* C25: a frame made for time t gives the character with index i the factor
\* 0 before i*char_delay, 1 from i*char_delay + char_fade_duration on and
\* the linear ramp in between, without an error even for a fade duration
\* of 0; the factors do not decrease when t grows; the frame depends on t
\* alone and the base buffer stays as it was.
C25_CharacterFadeIn ==
    [][FrameMade(call') =>
        LET a == call'.args
            res == call'.result
            n == CountChars(a.wrapped_text)
        IN  /\ res.err = "none"
            /\ Len(res.factors) = n
            /\ \A k \in 1..n :
                  SameFraction(res.factors[k],
                      RevealFactor(res.t, k - 1, a.char_delay, a.char_fade_duration))
            /\ \A k \in 1..n :
                  res.frame[k] =
                      LET f == RevealFactor(res.t, k - 1, a.char_delay, a.char_fade_duration)
                      IN  (a.alpha * f[1]) \div f[2]
            /\ res.base_array = [k \in 1..n |-> a.alpha]
            /\ (FrameMade(call) /\ RLeq(call.result.t, res.t)) =>
                  \A k \in 1..n : RLeq(call.result.factors[k], res.factors[k])
      ]_vars

\* C25 witness: with a fade duration of 0 the frame at t = 0.05, made after
\* a later frame, shows character 1 (start 0.05) in full and character 2
\* (start 0.1) not at all.
C25_Witness ==
    /\ FrameMade(call)
    /\ call.args.wrapped_text = <<"a", " ", "b">>
    /\ call.args.alpha = 255
    /\ call.args.char_fade_duration = [n |-> 0, d |-> 1]
    /\ call.args.char_delay = [n |-> 1, d |-> 20]
    /\ call.result.t = [n |-> 1, d |-> 20]
    /\ call.result.err = "none"
    /\ call.result.frame = <<255, 255, 0>>

(***************************************************************************)
(* handler(event, context): from the participant record to the text of a   *)
(* text overlay.  An attribute of the record is a string or is absent      *)
(* (.get returns None).  The template variables are t for completionTime,  *)
(* r for runner, c for category and b for bibId.                           *)
(***************************************************************************)
Absent == PyNone

\* str(x) of a value that may be None
str_of(value) == IF value.kind = "None" THEN <<"N", "o", "n", "e">> ELSE str(value)

\* s[:15]
first_15(s) == SubSeq(s, 1, IF Len(s) < 15 THEN Len(s) ELSE 15)

XXX == StrVal(<<"X", "X", "X">>)
DummyBib == <<"-", "1">>

\* completion_time, participants_name, run_category of the handler
participant_data(participants, bib_id) ==
    IF bib_id # DummyBib
    THEN [completion_time |-> participants[1].CompletionTime,
          participants_name |-> participants[1].ParticipantName,
          run_category |-> participants[1].TicketName]
    ELSE [completion_time |-> XXX, participants_name |-> XXX, run_category |-> XXX]

\* template_vars = {"completionTime": ..., "runner": ..., "category": ...,
\* "bibId": ...}
template_vars_of(data, bib_id) ==
    [n \in {<<"t">>, <<"r">>, <<"c">>, <<"b">>} |->
        IF n = <<"t">> THEN StrVal(str_of(data.completion_time))
        ELSE IF n = <<"r">> THEN StrVal(first_15(data.participants_name.s))
        ELSE IF n = <<"c">> THEN data.run_category
        ELSE StrVal(bib_id)]

\* the handler up to the text of a text overlay handed to the renderer
handler_text(participants, bib_id, text) ==
    IF bib_id # DummyBib /\ participants = <<>>
    THEN [err |-> "none", ok |-> FALSE, rendered |-> FALSE, text |-> <<>>]
    ELSE LET data == participant_data(participants, bib_id)
         IN  IF data.participants_name.kind = "None"
             THEN [err |-> "TypeError", ok |-> FALSE, rendered |-> FALSE, text |-> <<>>]
             ELSE [err |-> "none", ok |-> TRUE, rendered |-> TRUE,
                   text |-> evaluate_template_text(text,
                                template_vars_of(data, bib_id))]

LongName == [k \in 1..16 |-> IF k = 1 THEN "A" ELSE "l"]

Participants ==
    [CompletionTime : {Absent, StrVal(<<"4", "2">>)},
     ParticipantName : {Absent, StrVal(<<"A", "l">>), StrVal(LongName)},
     TicketName : {Absent, StrVal(<<"5", "K">>)}]

HandlerLines ==
    {<<Lit(<<"T", ":">>), Ref(<<"t">>)>>,
     <<Ref(<<"r">>)>>,
     <<Lit(<<"c", ":">>), Ref(<<"c">>)>>,
     <<Lit(<<"h", "i", " ">>), Ref(<<"b">>)>>}

HandlerEvents ==
    {[bib_id |-> <<"7">>, participants |-> ps, lines |-> ls, text |-> template_text(ls)] :
        ps \in {<<>>} \cup {<<p>> : p \in Participants},
        ls \in SeqsUpTo(HandlerLines, MaxLines)}
    \cup {[bib_id |-> DummyBib, participants |-> <<>>, lines |-> ls,
           text |-> template_text(ls)] : ls \in SeqsUpTo(HandlerLines, MaxLines)}

InitHandler ==
    /\ RenderIdle
    /\ call \in {CallOf("handler", e) : e \in HandlerEvents}

CallHandler ==
    /\ call.fn = "handler"
    /\ ~call.done
    /\ Return(handler_text(call.args.participants, call.args.bib_id, call.args.text))

NextHandler == CallHandler

SpecHandler == InitHandler /\ [][NextHandler]_vars

HandlerDone == call.fn = "handler" /\ call.done

\* a participant record was found for the event's bib
HasParticipant(e) == e.bib_id # DummyBib /\ e.participants # <<>>

\* the mapping the substitutor should see: an attribute the record lacks is
\* no key of it
VarsOfRecord(p, bib_id) ==
    LET keys == {<<"b">>}
                \cup (IF p.CompletionTime.kind = "None" THEN {} ELSE {<<"t">>})
                \cup (IF p.ParticipantName.kind = "None" THEN {} ELSE {<<"r">>})
                \cup (IF p.TicketName.kind = "None" THEN {} ELSE {<<"c">>})
    IN  [n \in keys |->
            IF n = <<"t">> THEN p.CompletionTime
            ELSE IF n = <<"r">>
            THEN StrVal(SubSeq(p.ParticipantName.s, 1,
                               IF Len(p.ParticipantName.s) < 15
                               THEN Len(p.ParticipantName.s) ELSE 15))
            ELSE IF n = <<"c">> THEN p.TicketName
            ELSE StrVal(bib_id)]

RECURSIVE HoldsNoneFrom(_, _)
HoldsNoneFrom(s, p) ==
    /\ p + 3 <= Len(s)
    /\ \/ SubSeq(s, p, p + 3) = <<"N", "o", "n", "e">>
       \/ HoldsNoneFrom(s, p + 1)

\* C27: for a participant record, the overlay text is rendered with every
\* line that references a lacking attribute dropped, and never shows "None".
C27_LackingAttributeDropsLine ==
    (HandlerDone /\ HasParticipant(call.args)) =>
        /\ call.result.err = "none"
        /\ call.result.rendered
        /\ call.result.text =
             WithNewlines(ExpectedLines(call.args.lines,
                 VarsOfRecord(call.args.participants[1], call.args.bib_id)))
        /\ ~HoldsNoneFrom(call.result.text, 1)

\* C27, the part that holds: a record that has its name and completion time
\* is rendered with the lines of a lacking category dropped.
C27_LackingCategoryDropsLine ==
    (HandlerDone /\ HasParticipant(call.args)
        /\ call.args.participants[1].CompletionTime.kind # "None"
        /\ call.args.participants[1].ParticipantName.kind # "None") =>
        /\ call.result.err = "none"
        /\ call.result.rendered
        /\ call.result.text =
             WithNewlines(ExpectedLines(call.args.lines,
                 VarsOfRecord(call.args.participants[1], call.args.bib_id)))
        /\ ~HoldsNoneFrom(call.result.text, 1)

(***************************************************************************)
(* generate_reel_local: the assignment of the images to the overlays.  An  *)
(* overlay is its type (NONE when it has none); an image is its position   *)
(* in image_paths.  A kept overlay is held with its index in the config    *)
(* and the images it was given.                                            *)
(***************************************************************************)
pop_first_mut(available_images) == available_images
\* available_images after available_images.pop(0)
pop_first(available_images) == Tail(available_images)

\* overlay.get("type", "image")
overlay_type(overlay) == IF overlay = NONE THEN "image" ELSE overlay

Kept(k, type, images) == [idx |-> k, type |-> type, images |-> images]

\* the loop over overlays from overlay k on
RECURSIVE assign_images(_, _, _, _)
assign_images(config_overlays, k, available_images, overlays_with_images) ==
    IF k > Len(config_overlays) THEN overlays_with_images
    ELSE LET type == overlay_type(config_overlays[k])
         IN  IF type = "image_stack"
             THEN IF available_images # <<>>
                  THEN assign_images(config_overlays, k + 1, <<>>,
                           Append(overlays_with_images, Kept(k, type, available_images)))
                  ELSE assign_images(config_overlays, k + 1, available_images,
                           overlays_with_images)
             ELSE IF type = "image"
             THEN IF available_images # <<>>
                  THEN assign_images(config_overlays, k + 1, pop_first(available_images),
                           Append(overlays_with_images,
                                  Kept(k, type, <<Head(available_images)>>)))
                  ELSE assign_images(config_overlays, k + 1, available_images,
                           overlays_with_images)
             ELSE assign_images(config_overlays, k + 1, available_images,
                      Append(overlays_with_images, Kept(k, type, <<>>)))

\* the overlays handed to overlay_images_on_video and the caller's
\* image_paths after the call (the loop works on image_paths.copy())
generate_reel_local(config_overlays, image_paths) ==
    [err |-> "none",
     overlays |-> assign_images(config_overlays, 1, image_paths, <<>>),
     image_paths |-> image_paths]

ConfigTypes == {"image", "image_stack", "text", NONE}
ImageLists == {[k \in 1..n |-> k] : n \in 0..MaxImages}

InitAssign ==
    /\ RenderIdle
    /\ call \in {CallOf("generate_reel_local", [overlays |-> os, image_paths |-> ims]) :
                    os \in SeqsUpTo(ConfigTypes, MaxOverlays + 1), ims \in ImageLists}

CallGenerateReelLocal ==
    /\ call.fn = "generate_reel_local"
    /\ ~call.done
    /\ Return(generate_reel_local(call.args.overlays, call.args.image_paths))

NextAssign == CallGenerateReelLocal

SpecAssign == InitAssign /\ [][NextAssign]_vars

AssignDone == call.fn = "generate_reel_local" /\ call.done

TakesImages(t) == t \in {"image", "image_stack", NONE}

\* the number of images not yet assigned when overlay k is reached
RECURSIVE ImagesLeft(_, _, _)
ImagesLeft(types, n, k) ==
    IF k = 1 THEN n
    ELSE LET before == ImagesLeft(types, n, k - 1)
         IN  IF types[k - 1] = "image_stack" THEN 0
             ELSE IF TakesImages(types[k - 1]) /\ before > 0 THEN before - 1
             ELSE before

\* C28: no image position is given twice; an image overlay gets the next
\* image in input order, an image_stack all images not yet given; an image
\* or image_stack overlay reached with no image left is omitted, any other
\* overlay is kept; the kept overlays keep their order; image_paths is as
\* it was.
C28_ImageAssignment ==
    AssignDone =>
        LET types == call.args.overlays
            n == Len(call.args.image_paths)
            out == call.result.overlays
        IN  /\ call.result.image_paths = call.args.image_paths
            /\ \A a, b \in 1..Len(out) : a < b => out[a].idx < out[b].idx
            /\ \A a, b \in 1..Len(out) : \A p \in 1..Len(out[a].images) :
                  \A q \in 1..Len(out[b].images) :
                      out[a].images[p] = out[b].images[q] => (a = b /\ p = q)
            /\ \A k \in 1..Len(types) :
                  LET left == ImagesLeft(types, n, k)
                      kept == {a \in 1..Len(out) : out[a].idx = k}
                  IN  /\ kept # {} <=> (~TakesImages(types[k]) \/ left > 0)
                      /\ \A a \in kept :
                            out[a].images =
                                IF ~TakesImages(types[k]) THEN <<>>
                                ELSE IF types[k] = "image_stack"
                                THEN [j \in 1..left |-> call.args.image_paths[n - left + j]]
                                ELSE <<call.args.image_paths[n - left + 1]>>

\* C28 witness: image, image_stack, image with three images: the first
\* image overlay gets image 1, the stack images 2 and 3, the last image
\* overlay is omitted.
C28_Witness ==
    /\ AssignDone
    /\ call.args.overlays = <<"image", "image_stack", "image">>
    /\ Len(call.args.image_paths) = 3
    /\ Len(call.result.overlays) = 2
    /\ call.result.overlays[1].images = <<1>>
    /\ call.result.overlays[2].images = <<2, 3>>

(***************************************************************************)
(* The image-processing lambda, for one file of one event.  bib_numbers    *)
(* is what extract_bib_numbers returns for the file.  An invocation runs   *)
(* to its end before the next one starts; fault names the call that        *)
(* raises in it, if any.                                                   *)
(***************************************************************************)
MaxInvocations == 3

Processed == "ProcessedImages"
UnProcessed == "UnProcessedImages"

NoFault == [at |-> "none", k |-> 0]
FaultAt(at) == [at |-> at, k |-> 0]
\* the k-th table.put_item of add_entry_to_db raises
FaultAtPut(k) == [at |-> "put_item", k |-> k]

\* file_already_processed(filename, event_id)
file_already_processed(objects) == Processed \in objects

\* the except branch: upload to UnProcessedImages (which may fail as well),
\* then raise
handler_except(objects, table, upload_ok) ==
    [objects |-> IF upload_ok THEN objects \cup {UnProcessed} ELSE objects,
     table |-> table, err |-> "Exception", ok |-> FALSE]

\* add_entry_to_db: one put_item per bib number; puts is the number of
\* put_item calls that return
add_entry_to_db(table, bib_numbers, puts) == table \o SubSeq(bib_numbers, 1, puts)

lambda_handler(objects, table, bib_numbers, fault, upload_ok) ==
    IF fault.at \in {"download_file", "head_object"}
    THEN [objects |-> objects, table |-> table, err |-> "Exception", ok |-> FALSE]
    ELSE IF file_already_processed(objects)
    THEN [objects |-> objects, table |-> table, err |-> "none", ok |-> TRUE]
    ELSE IF fault.at \in {"extract_bib_numbers", "upload_file"}
    THEN handler_except(objects, table, upload_ok)
    ELSE LET s3_key == IF bib_numbers # <<>> THEN Processed ELSE UnProcessed
             uploaded == objects \cup {s3_key}
         IN  IF fault.at = "put_item" /\ fault.k <= Len(bib_numbers)
             THEN handler_except(uploaded,
                      add_entry_to_db(table, bib_numbers, fault.k - 1), upload_ok)
             ELSE [objects |-> uploaded,
                   table |-> add_entry_to_db(table, bib_numbers, Len(bib_numbers)),
                   err |-> "none", ok |-> TRUE]

BibLists == {<<>>, <<"11">>, <<"22">>, <<"11", "22">>, <<"11", "22", "33">>}

Faults ==
    {NoFault} \cup {FaultAt(at) : at \in {"download_file", "head_object",
                                           "extract_bib_numbers", "upload_file"}}
    \cup {FaultAtPut(k) : k \in 1..3}

InitLambda ==
    /\ RenderIdle
    /\ call \in {[fn |-> "lambda_handler", args |-> [bib_numbers |-> b], done |-> FALSE,
                  result |-> [err |-> "pending", ok |-> FALSE, runs |-> 0]] :
                    b \in BibLists}

\* one invocation of lambda_handler for the file
LambdaHandler ==
    /\ call.fn = "lambda_handler"
    /\ call.result.runs < MaxInvocations
    /\ \E fault \in Faults, upload_ok \in BOOLEAN :
          LET r == lambda_handler(s3_objects, event_images, call.args.bib_numbers,
                                  fault, upload_ok)
          IN  /\ s3_objects' = r.objects
              /\ event_images' = r.table
              /\ call' = [call EXCEPT !.done = TRUE,
                                      !.result = [err |-> r.err, ok |-> r.ok,
                                                  runs |-> call.result.runs + 1]]
    /\ UNCHANGED render_vars

NextLambda == LambdaHandler

SpecLambda == InitLambda /\ [][NextLambda]_vars

HasEntry(b) == \E k \in 1..Len(event_images) : event_images[k] = b

\* C29: between invocations, a file stored under ProcessedImages has a
\* table entry for each of its matched bib numbers, and the file is never
\* stored under both ProcessedImages and UnProcessedImages.
C29_ProcessedMeansRecorded ==
    call.fn = "lambda_handler" =>
        /\ Processed \in s3_objects =>
              \A k \in 1..Len(call.args.bib_numbers) : HasEntry(call.args.bib_numbers[k])
        /\ ~(Processed \in s3_objects /\ UnProcessed \in s3_objects)

\* C29, what holds: an invocation that finds the file in neither folder
\* and returns without error leaves it in one folder only, with a table
\* entry for each matched bib number when that folder is ProcessedImages.
C29_CleanRunIsConsistent ==
    [][(call.fn = "lambda_handler" /\ s3_objects = {}
          /\ call'.result.err = "none")
        => /\ s3_objects' \in {{Processed}, {UnProcessed}}
           /\ Processed \in s3_objects' =>
                 \A k \in 1..Len(call.args.bib_numbers) :
                    \E j \in 1..Len(event_images') :
                        event_images'[j] = call.args.bib_numbers[k]
      ]_vars

(***************************************************************************)
(* The email used as Rekognition ExternalImageId: encoded when a profile   *)
(* image is indexed, decoded when a face of an event image is matched.     *)
(***************************************************************************)
MaxEmailLen == 5

EmailChars == {"a", ".", "_", "+", "@"}

CountOf(s, c) == Cardinality({k \in 1..Len(s) : s[k] = c})

\* addresses: one '@', with something before it and something after it
Emails ==
    {e \in SeqsUpTo(EmailChars, MaxEmailLen) :
        /\ CountOf(e, "@") = 1
        /\ Head(e) # "@"
        /\ e[Len(e)] # "@"}

\* email.replace('@', '__').replace('+', '_')
external_id(email) == replace(replace(email, <<"@">>, <<"_", "_">>), <<"+">>, <<"_">>)

\* external_image_id.replace('__', '@')
actual_email(external_image_id) == replace(external_image_id, <<"_", "_">>, <<"@">>)

InitEmail ==
    /\ RenderIdle
    /\ call \in {CallOf("index_user_profile_image", [email |-> e]) : e \in Emails}

\* index_user_profile_image: the face is indexed under the encoded email
IndexUserProfileImage ==
    /\ call.fn = "index_user_profile_image"
    /\ ~call.done
    /\ call' = CallOf("match_faces_to_participants",
                      [indexed_email |-> call.args.email,
                       external_image_id |-> external_id(call.args.email)])
    /\ UNCHANGED <<render_vars, aws>>

\* match_faces_to_participants: the matched face's ExternalImageId is
\* decoded and the participant is queried by the result
MatchFacesToParticipants ==
    /\ call.fn = "match_faces_to_participants"
    /\ ~call.done
    /\ Return([err |-> "none",
               actual_email |-> actual_email(call.args.external_image_id)])

NextEmail == IndexUserProfileImage \/ MatchFacesToParticipants

SpecEmail == InitEmail /\ [][NextEmail]_vars

MatchDone == call.fn = "match_faces_to_participants" /\ call.done

Has(s, c) == \E k \in 1..Len(s) : s[k] = c

\* C30: a face indexed under an email that contains no '+' is looked up
\* under that same email: decoding the encoding gives the email back.
C30_EmailRoundTrips ==
    (MatchDone /\ ~Has(call.args.indexed_email, "+"))
        => call.result.actual_email = call.args.indexed_email

\* C30, what holds: the round trip gives the email back when the email
\* has neither '+' nor '_'.
C30_PlainEmailRoundTrips ==
    (MatchDone /\ ~Has(call.args.indexed_email, "+")
               /\ ~Has(call.args.indexed_email, "_"))
        => call.result.actual_email = call.args.indexed_email

=============================================================================
